---- MODULE Spec2Model ----
(***************************************************************************)
(* The WASM quality filter MQTT processor (iotopps/wasm-quality-filter).   *)
(*                                                                         *)
(* Two tasks share a bounded mpsc channel: mqtt_task polls the rumqttc     *)
(* event loop and enqueues (topic, payload) items, processing_task         *)
(* dequeues them, runs the quality filter and publishes the alerts.  Both  *)
(* update the atomic counters of MetricsCollector.  main() waits in a      *)
(* select! for a task to end or for ctrl-c.                                *)
(*                                                                         *)
(* Numbers with a fractional part (cycle times, the 7.0 threshold) are     *)
(* kept in tenths: 65 is 6.5 seconds.  A machine_id is kept as the list of *)
(* its '-'-separated tokens, so "LINE-1-STATION-C-01" is                   *)
(* <<"LINE","1","STATION","C","01">> and the empty string is <<"">>.       *)
(***************************************************************************)
EXTENDS Integers, Sequences, FiniteSets, TLC

(***************************************************************************)
(* Bounds of the exploration.                                              *)
(***************************************************************************)
\* inbound publishes delivered by the broker in the fault-injecting run
MaxMsgs == 3
\* poll errors injected in the fault-injecting run
MaxConnErrors == 2
\* inbound publishes beyond the queue capacity in the back-pressure run
MaxOverflow == 3
\* inbound publishes in the lifecycle run
LifecycleMsgs == 2
\* calls made on MetricsCollector by its callers in the metrics run
MaxOps == 4
\* get_metrics calls in the latency run
LatencySnaps == 1
\* latency tasks spawned and not yet run, in the window run
MaxPending == 2
\* latency samples recorded beyond the window capacity in the window run
MaxExtraSamples == 2
\* inbound publishes in the latency run
LatencyMsgs == 2
\* inbound publishes in the startup run
StartupMsgs == 2
\* generate_quality_alert calls on one message in the filter run
MaxBuilds == 2
\* clock readings in the filter run: 1..MaxClock
MaxClock == 2
\* calls made on MetricsCollector in the health run
HealthOps == 3

(***************************************************************************)
(* Program constants.                                                      *)
(***************************************************************************)
\* mpsc::channel::<(String, String)>(100)
QueueCapacity == 100
\* AsyncClient::new(mqtt_options, 10)
RequestCapacity == 10
\* CYCLE_TIME_THRESHOLD = 7.0, in tenths
CYCLE_TIME_THRESHOLD == 70
\* the latency window: its capacity and the batch removed beyond it
WINDOW_CAP == 1000
WINDOW_DRAIN == 500
\* length in bytes of a module file that loads
ModuleLen == 1
SCRAP_QUALITY == "scrap"

(***************************************************************************)
(* Option and Result values.                                               *)
(***************************************************************************)
None == [tag |-> "None"]
Some(x) == [tag |-> "Some", val |-> x]
Ok(x) == [tag |-> "Ok", val |-> x]
Err(e) == [tag |-> "Err", err |-> e]

(***************************************************************************)
(* message_parser.rs                                                       *)
(***************************************************************************)
\* A raw payload: decodes says whether serde_json::from_str succeeds on it
\* (well-formed JSON with every required field); the other fields are the
\* decoded WeldingMessage.  The timestamp and the three assembly fields are
\* those of one welding job unless WithAssembly sets others.
WeldingMessage(mid, st, ct, q) ==
    [decodes |-> TRUE, machine_id |-> mid, timestamp |-> 0, status |-> st,
     last_cycle_time |-> ct, quality |-> q,
     assembly_type |-> "FrameAssembly", assembly_id |-> "FA-001",
     station_id |-> "LINE-1-STATION-C"]

WithAssembly(m, asm) ==
    [m EXCEPT !.assembly_type = asm.assembly_type,
              !.assembly_id = asm.assembly_id,
              !.station_id = asm.station_id]

MalformedJson ==
    [decodes |-> FALSE, machine_id |-> <<"">>, timestamp |-> 0,
     status |-> "", last_cycle_time |-> 0, quality |-> "",
     assembly_type |-> "", assembly_id |-> "", station_id |-> ""]

\* String::is_empty on a machine_id kept as its token list
IsEmptyId(mid) == mid = <<"">>

\* variant: every decoded message is taken as valid
is_valid_operation_unchecked(m) == TRUE

is_valid_operation(m) ==
    /\ ~IsEmptyId(m.machine_id)
    /\ m.quality # ""
    /\ m.last_cycle_time > 0
    /\ m.quality \in {"good", "scrap", "rework"}
    /\ m.status \in {"running", "idle", "cooling", "faulted"}

\* variant: the machine number after the station token is required
get_line_info_five_parts(m) ==
    LET parts == m.machine_id
    IN  IF Len(parts) >= 5 /\ parts[1] = "LINE" /\ parts[3] = "STATION"
        THEN Some(<<<<"LINE", parts[2]>>, <<"STATION", parts[4]>>>>)
        ELSE None

get_line_info(m) ==
    LET parts == m.machine_id
    IN  IF Len(parts) >= 4 /\ parts[1] = "LINE" /\ parts[3] = "STATION"
        THEN Some(<<<<"LINE", parts[2]>>, <<"STATION", parts[4]>>>>)
        ELSE None

\* variant: one error for every failure
parse_welding_message_one_error(raw) ==
    IF ~raw.decodes \/ ~is_valid_operation(raw) THEN Err("decode")
    ELSE Ok(raw)

parse_welding_message(raw) ==
    IF ~raw.decodes THEN Err("decode")
    ELSE IF ~is_valid_operation(raw) THEN Err("Invalid welding operation data")
    ELSE Ok(raw)

(***************************************************************************)
(* filter_logic.rs                                                         *)
(***************************************************************************)
\* str::to_lowercase on the quality strings of the model
to_lowercase(s) ==
    CASE s = "SCRAP" -> "scrap"
      [] s = "Scrap" -> "scrap"
      [] s = "GOOD"  -> "good"
      [] OTHER       -> s

\* variant: the threshold itself alerts
should_trigger_alert_inclusive(m) ==
    /\ to_lowercase(m.quality) = SCRAP_QUALITY
    /\ m.last_cycle_time <= CYCLE_TIME_THRESHOLD

should_trigger_alert(m) ==
    /\ to_lowercase(m.quality) = SCRAP_QUALITY
    /\ m.last_cycle_time < CYCLE_TIME_THRESHOLD

determine_severity(m) ==
    LET deviation == CYCLE_TIME_THRESHOLD - m.last_cycle_time
    IN  IF deviation >= 20 THEN "high"
        ELSE IF deviation >= 10 THEN "medium"
        ELSE "low"

\* variant: the bands of the action are open at their lower end
determine_recommended_action_open(m) ==
    LET deviation == CYCLE_TIME_THRESHOLD - m.last_cycle_time
    IN  IF deviation > 20 THEN "immediate_inspection_required"
        ELSE IF deviation > 10 THEN "investigate_welding_parameters"
        ELSE "monitor_next_cycle"

determine_recommended_action(m) ==
    LET deviation == CYCLE_TIME_THRESHOLD - m.last_cycle_time
    IN  IF deviation >= 20 THEN "immediate_inspection_required"
        ELSE IF deviation >= 10 THEN "investigate_welding_parameters"
        ELSE "monitor_next_cycle"

\* variant: the quality is copied in lower case
generate_quality_alert_lowercased(m, now) ==
    [alert_type |-> "quality_control",
     source_machine |-> m.machine_id,
     timestamp |-> now,
     trigger_conditions |-> [quality |-> to_lowercase(m.quality),
                             cycle_time |-> m.last_cycle_time,
                             threshold |-> CYCLE_TIME_THRESHOLD],
     assembly_details |-> [assembly_type |-> m.assembly_type,
                           id |-> m.assembly_id,
                           station_id |-> m.station_id],
     severity |-> determine_severity(m),
     recommended_action |-> determine_recommended_action(m),
     line_info |-> get_line_info(m)]

\* now is the reading of Utc::now() the call takes
generate_quality_alert(m, now) ==
    [alert_type |-> "quality_control",
     source_machine |-> m.machine_id,
     timestamp |-> now,
     trigger_conditions |-> [quality |-> m.quality,
                             cycle_time |-> m.last_cycle_time,
                             threshold |-> CYCLE_TIME_THRESHOLD],
     assembly_details |-> [assembly_type |-> m.assembly_type,
                           id |-> m.assembly_id,
                           station_id |-> m.station_id],
     severity |-> determine_severity(m),
     recommended_action |-> determine_recommended_action(m),
     line_info |-> get_line_info(m)]

(***************************************************************************)
(* lib.rs                                                                  *)
(***************************************************************************)
\* Option<String>: the serialized alert, or None both when the payload does
\* not parse and when the filter does not fire.  The pipeline runs keep one
\* clock reading, EvaluationTime, for every alert they build.
EvaluationTime == 1

process_welding_message(input) ==
    LET parsed == parse_welding_message(input)
    IN  IF parsed.tag = "Err" THEN None
        ELSE IF should_trigger_alert(parsed.val)
             THEN Some(generate_quality_alert(parsed.val, EvaluationTime))
             ELSE None

(***************************************************************************)
(* mqtt-processor/src/wasm_runtime.rs (WasmQualityFilter)                  *)
(***************************************************************************)
\* Result<Option<String>>: the module's answer for the payload, or an error
\* of the WASM runtime itself (runtime_ok = FALSE).
process_message(payload, runtime_ok) ==
    IF ~runtime_ok THEN Err("runtime")
    ELSE Ok(process_welding_message(payload))

(***************************************************************************)
(* Inputs of the exploration.                                              *)
(***************************************************************************)
StationC01 == <<"LINE", "1", "STATION", "C", "01">>

ScrapFast  == WeldingMessage(StationC01, "running", 65, "scrap")
ScrapSlow  == WeldingMessage(StationC01, "running", 75, "scrap")
GoodFast   == WeldingMessage(StationC01, "running", 60, "good")
ZeroCycle  == WeldingMessage(StationC01, "running", 0, "scrap")
UpperScrap == WeldingMessage(StationC01, "running", 65, "SCRAP")

\* payloads the broker may deliver in the fault-injecting run
Payloads == {ScrapFast, GoodFast, ZeroCycle, UpperScrap, MalformedJson}

\* the messages and payloads a caller hands to the filter library
MachineIds ==
    {StationC01,
     <<"LINE", "1", "STATION", "C">>,
     <<"LINE", "1", "STATION">>,
     <<"LINE", "1", "CELL", "C", "01">>,
     <<"CELL", "1", "STATION", "C", "01">>,
     <<"MACHINE", "07">>,
     <<"">>}
Statuses == {"running", "faulted", "offline"}
CycleTimes == {0, 45, 50, 51, 60, 61, 65, 69, 70, 75}
Qualities == {"scrap", "SCRAP", "Scrap", "good", "rework",
              "invalid_quality", ""}
Assemblies ==
    {[assembly_type |-> "FrameAssembly", assembly_id |-> "FA-001",
      station_id |-> "LINE-1-STATION-C"],
     [assembly_type |-> "DoorAssembly", assembly_id |-> "DA-002",
      station_id |-> "LINE-2-STATION-A"]}
Events ==
    {WithAssembly(WeldingMessage(mid, st, ct, q), asm) :
        mid \in MachineIds, st \in Statuses, ct \in CycleTimes,
        q \in Qualities, asm \in Assemblies}
      \cup {MalformedJson}

\* the fixed input stream of the back-pressure run
Stream == <<ScrapFast, GoodFast, MalformedJson, ScrapSlow>>
StreamPayload(id) == Stream[(id % Len(Stream)) + 1]

(***************************************************************************)
(* State.                                                                  *)
(***************************************************************************)
VARIABLES
    queue,              \* the mpsc channel: items sent and not yet received
    rxOpen,             \* the Receiver is alive
    requests,           \* the request buffer of the MQTT client
    subscribed,         \* the broker holds the subscription
    delivered,          \* publish requests the event loop has taken
    mqttPc,             \* position of mqtt_task
    mqttItem,           \* the item mqtt_task is sending
    procPc,             \* position of processing_task
    procItem,           \* the item processing_task is handling
    procAlert,          \* the alert it is publishing
    messages_received,
    messages_processed,
    alerts_generated,
    processing_errors,
    connection_errors,
    publish_errors,
    latencySpawned,     \* record_processing_latency calls made
    mainState,          \* position of main: select, left, stopped
    senders,            \* the Sender handles of the channel that are alive
    leftBy,             \* the arm of select! that completed
    lastEvent,          \* outcome of the last poll
    dequeued,           \* history: number of items received from the channel
    evalLog,            \* history: ids evaluated, in order
    pubLog,             \* history: items for which publish was called
    dropped,            \* history: ids that never entered the channel
    abandoned,          \* history: ids dropped with the Receiver
    queuedAtClose,      \* history: items queued when the last Sender went
    artifact,           \* the module file on disk
    wasmCheck,          \* the wasm_module entry of the last health report
    healthPc,           \* position of check_health
    checks,             \* the HealthChecks it has filled in so far
    report,             \* the HealthStatus returned last
    receivedAtStart,    \* history: messages_received when check_health began
    event,              \* the payload a caller of the filter library holds
    applied,            \* the library function it applied last
    outcome,            \* what that call returned
    built,              \* the alerts generate_quality_alert built from it
    latencies,          \* processing_latencies: the Vec behind the RwLock
    pendingWriters,     \* latency tasks spawned that have not taken the lock
    clearPending,       \* clear tasks spawned that have not taken the lock
    lock,               \* holder of the RwLock
    snapPc,             \* position of get_metrics: 0 idle, 1..6 loads, 7, 8
    snap,               \* the values get_metrics has loaded so far
    lastSnap,           \* the MetricsData returned last
    resetPc,            \* stores reset() has done, 0 when idle
    pushes,             \* history: samples pushed so far
    heldFrom,           \* history: latencySpawned when the lock was taken
    ops,                \* history: calls made on MetricsCollector
    resets,             \* history: reset calls begun
    calls,              \* history: increment calls made, per counter
    cleanCur,           \* history: no reset store since get_metrics began
    cleanPrev,          \* history: the same for the call returned last
    quiet,              \* history: a reset returned and no call since
    snapQuiet           \* history: quiet when get_metrics began

counters == <<messages_received, messages_processed, alerts_generated,
              processing_errors, connection_errors, publish_errors>>
mqttVars == <<mqttPc, mqttItem, lastEvent, dropped>>
procVars == <<procPc, procItem, procAlert, latencySpawned, dequeued,
              evalLog, pubLog>>
lifeVars == <<mainState, senders, leftBy, abandoned, queuedAtClose>>
healthVars == <<artifact, wasmCheck, healthPc, checks, report,
                receivedAtStart>>
evalVars == <<event, applied, outcome, built>>
latVars == <<latencies, pendingWriters, clearPending, lock, pushes, heldFrom>>
snapVars == <<snapPc, snap, lastSnap, cleanCur, cleanPrev, snapQuiet>>
callVars == <<resetPc, resets, calls, quiet, ops>>
metricsVars == <<latVars, snapVars, callVars>>
sideVars == <<healthVars, metricsVars, evalVars>>
pipeVars == <<queue, rxOpen, requests, subscribed, delivered, mqttVars,
              procVars, counters, lifeVars>>
vars == <<pipeVars, sideVars>>

NoItem == [id |-> 0, payload |-> MalformedJson]
NoAlert == None

\* the module file: absent, or present with a length in bytes
NoFile == [exists |-> FALSE, len |-> 0]
File(n) == [exists |-> TRUE, len |-> n]
ModuleFile == File(ModuleLen)
ArtifactStates == {NoFile, File(0), ModuleFile}
NoCheck == [status |-> "none", last_checked |-> 0]

\* the six counters, in the order get_metrics loads and reset stores them
CounterOrder ==
    <<"messages_received", "messages_processed", "alerts_generated",
      "processing_errors", "connection_errors", "publish_errors">>
CounterNames == {CounterOrder[i] : i \in DOMAIN CounterOrder}
NoSnap == [tag |-> "None"]
\* latencies in milliseconds that a caller records
Durations == {10, 20}
SampleMs == 10

\* HealthService::new, before any request
NoChecks ==
    [wasm_module |-> "none", mqtt_connection |-> "none",
     memory_usage |-> "none", message_processing |-> "none"]
NoReport == [status |-> "none", checks |-> NoChecks]

InitHealth ==
    /\ healthPc = "idle"
    /\ checks = NoChecks
    /\ report = NoReport
    /\ receivedAtStart = 0

\* no caller of the filter library outside the pipeline
InitNoCaller ==
    /\ event = MalformedJson
    /\ applied = "none"
    /\ outcome = None
    /\ built = <<>>

\* MetricsCollector::new
InitMetrics ==
    /\ latencies = <<>>
    /\ pendingWriters = 0
    /\ clearPending = 0
    /\ lock = "free"
    /\ snapPc = 0
    /\ snap = [c \in CounterNames |-> 0]
    /\ lastSnap = NoSnap
    /\ resetPc = 0
    /\ pushes = 0
    /\ heldFrom = 0
    /\ ops = 0
    /\ resets = 0
    /\ calls = [c \in CounterNames |-> 0]
    /\ cleanCur = FALSE
    /\ cleanPrev = FALSE
    /\ quiet = FALSE
    /\ snapQuiet = FALSE

\* the channel, the client and the two tasks once main has spawned them
InitTasks ==
    /\ queue = <<>>
    /\ rxOpen = TRUE
    /\ requests = <<[kind |-> "subscribe", id |-> 0, alert |-> NoAlert]>>
    /\ subscribed = FALSE
    /\ delivered = <<>>
    /\ mqttPc = "poll"
    /\ mqttItem = NoItem
    /\ procPc = "recv"
    /\ procItem = NoItem
    /\ procAlert = NoAlert
    /\ latencySpawned = 0
    /\ mainState = "select"
    /\ senders = {"main", "mqtt_task"}
    /\ leftBy = "none"
    /\ abandoned = {}
    /\ queuedAtClose = 0
    /\ lastEvent = "none"
    /\ dequeued = 0
    /\ evalLog = <<>>
    /\ pubLog = <<>>
    /\ dropped = {}

\* the six atomics of MetricsCollector::new
InitCounters ==
    /\ messages_received = 0
    /\ messages_processed = 0
    /\ alerts_generated = 0
    /\ processing_errors = 0
    /\ connection_errors = 0
    /\ publish_errors = 0

Init ==
    /\ InitTasks
    /\ InitCounters
    /\ artifact = ModuleFile
    /\ wasmCheck = NoCheck
    /\ InitHealth
    /\ InitNoCaller
    /\ InitMetrics

(***************************************************************************)
(* mqtt_task                                                               *)
(***************************************************************************)
\* variant: a payload that does not decode is counted but not enqueued
MqttPollPublishValidating(payload, budget) ==
    /\ mqttPc = "poll"
    /\ subscribed
    /\ messages_received < budget
    /\ messages_received' = messages_received + 1
    /\ IF payload.decodes
       THEN /\ mqttItem' = [id |-> messages_received + 1, payload |-> payload]
            /\ mqttPc' = "send"
       ELSE /\ mqttItem' = mqttItem
            /\ mqttPc' = "poll"
    /\ lastEvent' = "publish"
    /\ UNCHANGED <<queue, rxOpen, requests, subscribed, delivered, dropped,
                   procVars, messages_processed, alerts_generated,
                   processing_errors, connection_errors, publish_errors,
                   lifeVars>>
    /\ UNCHANGED sideVars

\* poll() yields an inbound Publish: count it, then go on to tx.send
MqttPollPublish(payload, budget) ==
    /\ mqttPc = "poll"
    /\ subscribed
    /\ messages_received < budget
    /\ messages_received' = messages_received + 1
    /\ mqttItem' = [id |-> messages_received + 1, payload |-> payload]
    /\ mqttPc' = "send"
    /\ lastEvent' = "publish"
    /\ UNCHANGED <<queue, rxOpen, requests, subscribed, delivered, dropped,
                   procVars, messages_processed, alerts_generated,
                   processing_errors, connection_errors, publish_errors,
                   lifeVars>>
    /\ UNCHANGED sideVars

\* poll() takes the oldest request of the client and writes it to the
\* network: Ok(Event::Outgoing(_)), the Ok(_) arm
MqttPollOutgoing ==
    /\ mqttPc = "poll"
    /\ requests # <<>>
    /\ requests' = Tail(requests)
    /\ IF Head(requests).kind = "subscribe"
       THEN subscribed' = TRUE /\ delivered' = delivered
       ELSE subscribed' = subscribed
            /\ delivered' = Append(delivered, Head(requests))
    /\ lastEvent' = "outgoing"
    /\ UNCHANGED <<queue, rxOpen, mqttPc, mqttItem, dropped, procVars,
                   counters, lifeVars>>
    /\ UNCHANGED sideVars

\* poll() yields another inbound packet (ConnAck, SubAck, PubAck, PingResp):
\* the Ok(_) arm
MqttPollOther ==
    /\ mqttPc = "poll"
    /\ lastEvent' = "other"
    /\ UNCHANGED <<queue, rxOpen, requests, subscribed, delivered, mqttPc,
                   mqttItem, dropped, procVars, counters, lifeVars>>
    /\ UNCHANGED sideVars

\* variant: a poll error ends the loop
MqttPollErrorBreaks ==
    /\ mqttPc = "poll"
    /\ connection_errors < MaxConnErrors
    /\ connection_errors' = connection_errors + 1
    /\ mqttPc' = "ended"
    /\ subscribed' = FALSE
    /\ lastEvent' = "error"
    /\ UNCHANGED <<queue, rxOpen, requests, delivered, mqttItem, dropped,
                   procVars, messages_received, messages_processed,
                   alerts_generated, processing_errors, publish_errors,
                   lifeVars>>
    /\ UNCHANGED sideVars

\* poll() fails: count it and sleep 5 seconds.  The connection is gone and
\* with it the subscription of the clean session.
MqttPollError ==
    /\ mqttPc = "poll"
    /\ connection_errors < MaxConnErrors
    /\ connection_errors' = connection_errors + 1
    /\ mqttPc' = "sleep"
    /\ subscribed' = FALSE
    /\ lastEvent' = "error"
    /\ UNCHANGED <<queue, rxOpen, requests, delivered, mqttItem, dropped,
                   procVars, messages_received, messages_processed,
                   alerts_generated, processing_errors, publish_errors,
                   lifeVars>>
    /\ UNCHANGED sideVars

\* tokio::time::sleep(5 s) is over
MqttBackoffElapsed ==
    /\ mqttPc = "sleep"
    /\ mqttPc' = "poll"
    /\ UNCHANGED <<queue, rxOpen, requests, subscribed, delivered, mqttItem,
                   lastEvent, dropped, procVars, counters, lifeVars>>
    /\ UNCHANGED sideVars

\* variant: the permit check is off by one
HasCapacityOffByOne(q) == Len(q) <= QueueCapacity

\* the channel has a free permit

HasCapacity(q) == Len(q) < QueueCapacity

\* variant: the item enters the channel twice
MqttSendOkTwice ==
    /\ mqttPc = "send"
    /\ rxOpen
    /\ HasCapacity(queue)
    /\ queue' = queue \o <<mqttItem, mqttItem>>
    /\ mqttItem' = NoItem
    /\ mqttPc' = "poll"
    /\ UNCHANGED <<rxOpen, requests, subscribed, delivered, lastEvent,
                   dropped, procVars, counters, lifeVars>>
    /\ UNCHANGED sideVars

\* tx.send(..).await completes: it waits while the channel is full
MqttSendOk ==
    /\ mqttPc = "send"
    /\ rxOpen
    /\ HasCapacity(queue)
    /\ queue' = Append(queue, mqttItem)
    /\ mqttItem' = NoItem
    /\ mqttPc' = "poll"
    /\ UNCHANGED <<rxOpen, requests, subscribed, delivered, lastEvent,
                   dropped, procVars, counters, lifeVars>>
    /\ UNCHANGED sideVars

\* variant: a failed send ends the loop
MqttSendErrBreaks ==
    /\ mqttPc = "send"
    /\ ~rxOpen
    /\ dropped' = dropped \cup {mqttItem.id}
    /\ mqttItem' = NoItem
    /\ mqttPc' = "ended"
    /\ UNCHANGED <<queue, rxOpen, requests, subscribed, delivered, lastEvent,
                   procVars, counters, lifeVars>>
    /\ UNCHANGED sideVars

\* tx.send(..).await fails because the Receiver is gone: log and go on
MqttSendErr ==
    /\ mqttPc = "send"
    /\ ~rxOpen
    /\ dropped' = dropped \cup {mqttItem.id}
    /\ mqttItem' = NoItem
    /\ mqttPc' = "poll"
    /\ UNCHANGED <<queue, rxOpen, requests, subscribed, delivered, lastEvent,
                   procVars, counters, lifeVars>>
    /\ UNCHANGED sideVars

(***************************************************************************)
(* processing_task                                                         *)
(***************************************************************************)
\* variant: the newest item is taken first
ChannelRecvNewest(q) ==
    [item |-> q[Len(q)], rest |-> SubSeq(q, 1, Len(q) - 1)]

\* variant: the item is read but stays in the channel
ChannelRecvPeek(q) == [item |-> Head(q), rest |-> q]

\* rx.recv(): the oldest item of the channel

ChannelRecv(q) == [item |-> Head(q), rest |-> Tail(q)]

\* while let Some((topic, payload)) = rx.recv().await
ProcRecv ==
    /\ procPc = "recv"
    /\ rxOpen
    /\ queue # <<>>
    /\ procItem' = ChannelRecv(queue).item
    /\ queue' = ChannelRecv(queue).rest
    /\ dequeued' = dequeued + 1
    /\ procPc' = "process"
    /\ UNCHANGED <<rxOpen, requests, subscribed, delivered, mqttVars,
                   procAlert, latencySpawned, evalLog, pubLog, counters,
                   lifeVars>>
    /\ UNCHANGED sideVars

\* match wasm_filter_clone.process_message(&payload).await: the Err arm
\* counts a processing error, Ok(None) does nothing, Ok(Some(alert)) goes
\* on to publish
ProcEvaluate(runtime_ok) ==
    /\ procPc = "process"
    /\ evalLog' = Append(evalLog, procItem.id)
    /\ LET result == process_message(procItem.payload, runtime_ok)
       IN  IF result.tag = "Err"
           THEN /\ processing_errors' = processing_errors + 1
                /\ procAlert' = NoAlert
                /\ procPc' = "latency"
           ELSE IF result.val.tag = "None"
           THEN /\ processing_errors' = processing_errors
                /\ procAlert' = NoAlert
                /\ procPc' = "latency"
           ELSE /\ processing_errors' = processing_errors
                /\ procAlert' = result.val
                /\ procPc' = "publish"
    /\ UNCHANGED <<queue, rxOpen, requests, subscribed, delivered, mqttVars,
                   procItem, latencySpawned, dequeued, pubLog,
                   messages_received, messages_processed, alerts_generated,
                   connection_errors, publish_errors, lifeVars>>
    /\ UNCHANGED sideVars

\* the request buffer of the client has room
HasRequestRoom(r) == Len(r) < RequestCapacity

\* mqtt_client_clone.publish(..).await returns Ok: the request is in the
\* client's buffer; the call waits while the buffer is full
ProcPublishOk ==
    /\ procPc = "publish"
    /\ mqttPc # "cancelled"
    /\ HasRequestRoom(requests)
    /\ requests' = Append(requests, [kind |-> "publish", id |-> procItem.id,
                                     alert |-> procAlert.val])
    /\ pubLog' = Append(pubLog, procItem)
    /\ procPc' = "count_alert"
    /\ UNCHANGED <<queue, rxOpen, subscribed, delivered, mqttVars, procItem,
                   procAlert, latencySpawned, dequeued, evalLog, counters,
                   lifeVars>>
    /\ UNCHANGED sideVars

\* variant: a failed publish is counted and tried again
ProcPublishErrRetry ==
    /\ procPc = "publish"
    /\ pubLog' = Append(pubLog, procItem)
    /\ publish_errors' = publish_errors + 1
    /\ UNCHANGED <<queue, rxOpen, requests, subscribed, delivered, mqttVars,
                   procPc, procItem, procAlert, latencySpawned, dequeued,
                   evalLog, messages_received, messages_processed,
                   alerts_generated, processing_errors, connection_errors,
                   lifeVars>>
    /\ UNCHANGED sideVars

\* variant: after a failed publish the alert is counted as well
ProcPublishErrFallsThrough ==
    /\ procPc = "publish"
    /\ pubLog' = Append(pubLog, procItem)
    /\ publish_errors' = publish_errors + 1
    /\ procPc' = "count_alert"
    /\ UNCHANGED <<queue, rxOpen, requests, subscribed, delivered, mqttVars,
                   procItem, procAlert, latencySpawned, dequeued, evalLog,
                   messages_received, messages_processed, alerts_generated,
                   processing_errors, connection_errors, lifeVars>>
    /\ UNCHANGED sideVars

\* publish(..).await returns Err: count a publish error, no retry
ProcPublishErr ==
    /\ procPc = "publish"
    /\ pubLog' = Append(pubLog, procItem)
    /\ publish_errors' = publish_errors + 1
    /\ procAlert' = NoAlert
    /\ procPc' = "latency"
    /\ UNCHANGED <<queue, rxOpen, requests, subscribed, delivered, mqttVars,
                   procItem, latencySpawned, dequeued, evalLog,
                   messages_received, messages_processed, alerts_generated,
                   processing_errors, connection_errors, lifeVars>>
    /\ UNCHANGED sideVars

\* metrics_clone.increment_alerts_generated()
ProcCountAlert ==
    /\ procPc = "count_alert"
    /\ alerts_generated' = alerts_generated + 1
    /\ procAlert' = NoAlert
    /\ procPc' = "latency"
    /\ UNCHANGED <<queue, rxOpen, requests, subscribed, delivered, mqttVars,
                   procItem, latencySpawned, dequeued, evalLog, pubLog,
                   messages_received, messages_processed, processing_errors,
                   connection_errors, publish_errors, lifeVars>>
    /\ UNCHANGED sideVars

\* MetricsCollector::record_processing_latency: tokio::spawn of the task
\* that will take the write lock; the caller goes on at once
record_processing_latency ==
    /\ pendingWriters' = pendingWriters + 1
    /\ UNCHANGED <<latencies, clearPending, lock, pushes, heldFrom>>

\* variant: the caller takes the write lock and pushes the sample itself
ProcRecordLatencyInline ==
    /\ procPc = "latency"
    /\ lock = "free"
    /\ latencySpawned' = latencySpawned + 1
    /\ latencies' = Append(latencies, [seq |-> pushes + 1, ms |-> SampleMs])
    /\ pushes' = pushes + 1
    /\ procPc' = "count_processed"
    /\ UNCHANGED <<queue, rxOpen, requests, subscribed, delivered, mqttVars,
                   procItem, procAlert, dequeued, evalLog, pubLog, counters,
                   lifeVars>>
    /\ UNCHANGED <<pendingWriters, clearPending, lock, heldFrom>>
    /\ UNCHANGED <<healthVars, evalVars, snapVars, callVars>>

\* variant: the latency is recorded only for items that raised an alert
ProcRecordLatencyAlertsOnly ==
    /\ procPc = "latency"
    /\ latencySpawned' = IF pubLog # <<>> /\ pubLog[Len(pubLog)] = procItem
                          THEN latencySpawned + 1 ELSE latencySpawned
    /\ procPc' = "count_processed"
    /\ UNCHANGED <<queue, rxOpen, requests, subscribed, delivered, mqttVars,
                   procItem, procAlert, dequeued, evalLog, pubLog, counters,
                   lifeVars>>
    /\ UNCHANGED sideVars

\* metrics_clone.record_processing_latency(processing_duration): spawns the
\* task that will write the sample
ProcRecordLatency ==
    /\ procPc = "latency"
    /\ latencySpawned' = latencySpawned + 1
    /\ record_processing_latency
    /\ procPc' = "count_processed"
    /\ UNCHANGED <<queue, rxOpen, requests, subscribed, delivered, mqttVars,
                   procItem, procAlert, dequeued, evalLog, pubLog, counters,
                   lifeVars>>
    /\ UNCHANGED <<healthVars, evalVars, snapVars, callVars>>

\* metrics_clone.increment_messages_processed(), then back to rx.recv()
ProcCountProcessed ==
    /\ procPc = "count_processed"
    /\ messages_processed' = messages_processed + 1
    /\ procItem' = NoItem
    /\ procPc' = "recv"
    /\ UNCHANGED <<queue, rxOpen, requests, subscribed, delivered, mqttVars,
                   procAlert, latencySpawned, dequeued, evalLog, pubLog,
                   messages_received, alerts_generated, processing_errors,
                   connection_errors, publish_errors, lifeVars>>
    /\ UNCHANGED sideVars

\* variant: the loop ends as soon as the channel is empty
ProcRecvNoneOnEmpty ==
    /\ procPc = "recv"
    /\ queue = <<>>
    /\ procPc' = "done"
    /\ rxOpen' = FALSE
    /\ UNCHANGED <<queue, requests, subscribed, delivered, mqttVars, procItem,
                   procAlert, latencySpawned, dequeued, evalLog, pubLog,
                   counters, lifeVars>>
    /\ UNCHANGED sideVars

\* rx.recv().await yields None, the while let loop and the task end: every
\* Sender is dropped and the channel is empty
ProcRecvNone ==
    /\ procPc = "recv"
    /\ queue = <<>>
    /\ senders = {}
    /\ procPc' = "done"
    /\ rxOpen' = FALSE
    /\ UNCHANGED <<queue, requests, subscribed, delivered, mqttVars, procItem,
                   procAlert, latencySpawned, dequeued, evalLog, pubLog,
                   counters, lifeVars>>
    /\ UNCHANGED sideVars

\* the task ends by a panic while it evaluates an item: the Receiver and
\* the items still in the channel are dropped
ProcPanic ==
    /\ procPc = "process"
    /\ procPc' = "ended"
    /\ rxOpen' = FALSE
    /\ queue' = <<>>
    /\ abandoned' = abandoned \cup {queue[i].id : i \in DOMAIN queue}
    /\ UNCHANGED <<requests, subscribed, delivered, mqttVars, procItem,
                   procAlert, latencySpawned, dequeued, evalLog, pubLog,
                   counters, mainState, senders, leftBy, queuedAtClose>>
    /\ UNCHANGED sideVars

(***************************************************************************)
(* main: the select! over the tasks and ctrl-c                             *)
(***************************************************************************)
\* tokio::signal::ctrl_c() completes
MainCtrlC ==
    /\ mainState = "select"
    /\ mainState' = "left"
    /\ leftBy' = "ctrl_c"
    /\ UNCHANGED <<queue, rxOpen, requests, subscribed, delivered, mqttVars,
                   procVars, counters, senders, abandoned, queuedAtClose>>
    /\ UNCHANGED sideVars

\* variant: the select! only notices a task that ended without a panic
MainTaskEndedNoPanic ==
    /\ mainState = "select"
    /\ procPc = "done"
    /\ mainState' = "left"
    /\ leftBy' = "processing_task"
    /\ UNCHANGED <<queue, rxOpen, requests, subscribed, delivered, mqttVars,
                   procVars, counters, senders, abandoned, queuedAtClose>>
    /\ UNCHANGED sideVars

\* the JoinHandle of mqtt_task or of processing_task completes (with Err
\* after a panic)
MainTaskEnded ==
    /\ mainState = "select"
    /\ procPc \in {"ended", "done"} \/ mqttPc = "ended"
    /\ mainState' = "left"
    /\ leftBy' = IF mqttPc = "ended" THEN "mqtt_task" ELSE "processing_task"
    /\ UNCHANGED <<queue, rxOpen, requests, subscribed, delivered, mqttVars,
                   procVars, counters, senders, abandoned, queuedAtClose>>
    /\ UNCHANGED sideVars

\* the http_server future completes
MainHttpEnded ==
    /\ mainState = "select"
    /\ mainState' = "left"
    /\ leftBy' = "http_server"
    /\ UNCHANGED <<queue, rxOpen, requests, subscribed, delivered, mqttVars,
                   procVars, counters, senders, abandoned, queuedAtClose>>
    /\ UNCHANGED sideVars

\* main returns: its Sender is dropped with its locals, then the runtime is
\* dropped and starts to cancel the spawned tasks
MainReturn ==
    /\ mainState = "left"
    /\ mainState' = "stopped"
    /\ senders' = senders \ {"main"}
    /\ queuedAtClose' = IF senders' = {} THEN Len(queue) ELSE queuedAtClose
    /\ UNCHANGED <<queue, rxOpen, requests, subscribed, delivered, mqttVars,
                   procVars, counters, leftBy, abandoned>>
    /\ UNCHANGED sideVars

\* the runtime drops mqtt_task at the await it is suspended in (poll, send
\* or sleep): its Sender, the item it was sending and the event loop go
RuntimeCancelMqtt ==
    /\ mainState = "stopped"
    /\ mqttPc \in {"poll", "send", "sleep"}
    /\ mqttPc' = "cancelled"
    /\ mqttItem' = NoItem
    /\ dropped' = IF mqttPc = "send" THEN dropped \cup {mqttItem.id}
                  ELSE dropped
    /\ senders' = senders \ {"mqtt_task"}
    /\ queuedAtClose' = IF senders' = {} THEN Len(queue) ELSE queuedAtClose
    /\ UNCHANGED <<queue, rxOpen, requests, subscribed, delivered, lastEvent,
                   procVars, counters, mainState, leftBy, abandoned>>
    /\ UNCHANGED sideVars

\* variant: the queued items are handled before the task goes
RuntimeCancelProcDrains ==
    /\ mainState = "stopped"
    /\ procPc \in {"recv", "process", "publish"}
    /\ procPc' = "cancelled"
    /\ rxOpen' = FALSE
    /\ queue' = <<>>
    /\ dequeued' = dequeued + Len(queue)
    /\ evalLog' = evalLog \o [i \in DOMAIN queue |-> queue[i].id]
    /\ messages_processed' = messages_processed + Len(queue)
    /\ UNCHANGED <<requests, subscribed, delivered, mqttVars, procItem,
                   procAlert, latencySpawned, pubLog, messages_received,
                   alerts_generated, processing_errors, connection_errors,
                   publish_errors, lifeVars>>
    /\ UNCHANGED sideVars

\* the runtime drops processing_task at the await it is suspended in (recv,
\* process_message or publish): the Receiver and the queued items go
RuntimeCancelProc ==
    /\ mainState = "stopped"
    /\ procPc \in {"recv", "process", "publish"}
    /\ procPc' = "cancelled"
    /\ rxOpen' = FALSE
    /\ queue' = <<>>
    /\ abandoned' = abandoned \cup {queue[i].id : i \in DOMAIN queue}
    /\ UNCHANGED <<requests, subscribed, delivered, mqttVars, procItem,
                   procAlert, latencySpawned, dequeued, evalLog, pubLog,
                   counters, mainState, senders, leftBy, queuedAtClose>>
    /\ UNCHANGED sideVars

(***************************************************************************)
(* Startup of main, the module file and the wasm_module health check       *)
(***************************************************************************)
\* std::fs::metadata on the module file
fs_metadata(file) ==
    IF file.exists THEN Ok([len |-> file.len]) ELSE Err("NotFound")

\* WasmQualityFilter::new: the module is read and compiled from the file;
\* a missing or empty file does not load
WasmQualityFilter_new(file) ==
    IF file.exists /\ file.len > 0
    THEN Ok("WasmQualityFilter")
    ELSE Err("ModuleUnavailable")

\* HealthService::check_wasm_module: the status it reports
check_wasm_module(file) ==
    LET md == fs_metadata(file)
    IN  IF md.tag = "Ok"
        THEN IF md.val.len > 0 THEN "healthy" ELSE "unhealthy"
        ELSE "unhealthy"

\* main before the module is loaded: nothing is subscribed, no channel
\* exists and no task is spawned
InitStartup ==
    /\ queue = <<>>
    /\ rxOpen = FALSE
    /\ requests = <<>>
    /\ subscribed = FALSE
    /\ delivered = <<>>
    /\ mqttPc = "unspawned"
    /\ mqttItem = NoItem
    /\ procPc = "unspawned"
    /\ procItem = NoItem
    /\ procAlert = NoAlert
    /\ messages_received = 0
    /\ messages_processed = 0
    /\ alerts_generated = 0
    /\ processing_errors = 0
    /\ connection_errors = 0
    /\ publish_errors = 0
    /\ latencySpawned = 0
    /\ mainState = "startup"
    /\ senders = {}
    /\ leftBy = "none"
    /\ abandoned = {}
    /\ queuedAtClose = 0
    /\ lastEvent = "none"
    /\ dequeued = 0
    /\ evalLog = <<>>
    /\ pubLog = <<>>
    /\ dropped = {}
    /\ artifact \in ArtifactStates
    /\ wasmCheck = NoCheck
    /\ InitHealth
    /\ InitNoCaller
    /\ InitMetrics

\* variant: a module that does not load is tolerated until first use
MainInitWasmLazy ==
    /\ mainState = "startup"
    /\ mainState' = "loaded"
    /\ UNCHANGED <<queue, rxOpen, requests, subscribed, delivered, mqttVars,
                   procVars, counters, senders, leftBy, abandoned,
                   queuedAtClose, sideVars>>

\* WasmQualityFilter::new(..).context(..)?  : main returns the error
MainInitWasm ==
    /\ mainState = "startup"
    /\ mainState' = IF WasmQualityFilter_new(artifact).tag = "Ok"
                    THEN "loaded" ELSE "failed"
    /\ UNCHANGED <<queue, rxOpen, requests, subscribed, delivered, mqttVars,
                   procVars, counters, senders, leftBy, abandoned,
                   queuedAtClose, sideVars>>

\* mqtt_client.subscribe(..).await: the request enters the request buffer
MainSubscribe ==
    /\ mainState = "loaded"
    /\ HasRequestRoom(requests)
    /\ requests' = Append(requests,
                          [kind |-> "subscribe", id |-> 0, alert |-> NoAlert])
    /\ mainState' = "subscribed"
    /\ UNCHANGED <<queue, rxOpen, subscribed, delivered, mqttVars,
                   procVars, counters, senders, leftBy, abandoned,
                   queuedAtClose, sideVars>>

\* mpsc::channel(100), the two tokio::spawn calls, then the select!
MainSpawn ==
    /\ mainState = "subscribed"
    /\ queue' = <<>>
    /\ rxOpen' = TRUE
    /\ senders' = {"main", "mqtt_task"}
    /\ mqttPc' = "poll"
    /\ procPc' = "recv"
    /\ mainState' = "select"
    /\ UNCHANGED <<requests, subscribed, delivered, mqttItem, lastEvent,
                   dropped, procItem, procAlert, latencySpawned, dequeued,
                   evalLog, pubLog, counters, leftBy, abandoned,
                   queuedAtClose, sideVars>>

\* the environment replaces, empties or removes the module file
ArtifactChange(file) ==
    /\ file # artifact
    /\ artifact' = file
    /\ UNCHANGED <<pipeVars, wasmCheck, healthPc, checks, report,
                   receivedAtStart, metricsVars, evalVars>>

\* GET /health while the server is polled: the wasm_module entry
HealthCheckWasm ==
    /\ mainState = "select"
    /\ wasmCheck' = [status |-> check_wasm_module(artifact),
                     last_checked |-> messages_received]
    /\ UNCHANGED <<pipeVars, artifact, healthPc, checks, report,
                   receivedAtStart, metricsVars, evalVars>>

(***************************************************************************)
(* MetricsCollector: its callers, get_metrics, reset and the spawned tasks *)
(***************************************************************************)
CounterValue(c) ==
    CASE c = "messages_received"  -> messages_received
      [] c = "messages_processed" -> messages_processed
      [] c = "alerts_generated"   -> alerts_generated
      [] c = "processing_errors"  -> processing_errors
      [] c = "connection_errors"  -> connection_errors
      [] c = "publish_errors"     -> publish_errors

\* the atomic named c gets the value v, the other five keep theirs
SetCounter(c, v) ==
    /\ messages_received' =
           IF c = "messages_received" THEN v ELSE messages_received
    /\ messages_processed' =
           IF c = "messages_processed" THEN v ELSE messages_processed
    /\ alerts_generated' =
           IF c = "alerts_generated" THEN v ELSE alerts_generated
    /\ processing_errors' =
           IF c = "processing_errors" THEN v ELSE processing_errors
    /\ connection_errors' =
           IF c = "connection_errors" THEN v ELSE connection_errors
    /\ publish_errors' =
           IF c = "publish_errors" THEN v ELSE publish_errors

\* variant: a counter one bit wide
fetch_add_one_bit(cur, n) == (cur + n) % 2

\* variant: the new value is stored over the old one
fetch_add_as_store(cur, n) == n

\* AtomicU64::fetch_add: the value the atomic holds afterwards
fetch_add(cur, n) == cur + n

\* a caller runs increment_<c>()
MetricsIncrement(c, budget) ==
    /\ ops < budget
    /\ ops' = ops + 1
    /\ SetCounter(c, fetch_add(CounterValue(c), 1))
    /\ calls' = [calls EXCEPT ![c] = @ + 1]
    /\ quiet' = FALSE
    /\ UNCHANGED <<queue, rxOpen, requests, subscribed, delivered, mqttVars,
                   procVars, lifeVars, healthVars, evalVars, latVars, snapVars,
                   resetPc, resets>>

\* a caller runs record_processing_latency(d)
RecordLatency(budget) ==
    /\ ops < budget
    /\ pendingWriters < MaxPending
    /\ ops' = ops + 1
    /\ latencySpawned' = latencySpawned + 1
    /\ record_processing_latency
    /\ quiet' = FALSE
    /\ UNCHANGED <<queue, rxOpen, requests, subscribed, delivered, mqttVars,
                   procPc, procItem, procAlert, dequeued, evalLog, pubLog,
                   counters, lifeVars, healthVars, evalVars, snapVars, resetPc,
                   resets, calls>>

\* the processing loop runs record_processing_latency(d) again and again,
\* without end, while the first get_metrics call waits for the read lock;
\* the calls are not counted
RecordLatencyAgain ==
    /\ pendingWriters < MaxPending
    /\ snapPc = 7
    /\ lastSnap = NoSnap
    /\ record_processing_latency
    /\ UNCHANGED <<pipeVars, healthVars, evalVars, snapVars, callVars>>

\* a spawned latency task gets the write lock
WriterAcquire ==
    /\ pendingWriters > 0
    /\ lock = "free"
    /\ lock' = "writer"
    /\ pendingWriters' = pendingWriters - 1
    /\ heldFrom' = latencySpawned
    /\ UNCHANGED <<pipeVars, healthVars, evalVars, latencies, clearPending, pushes,
                   snapVars, callVars>>

\* latencies.push(latency), with the latency the task was given
WriterPush(ms) ==
    /\ lock = "writer"
    /\ latencies' = Append(latencies, [seq |-> pushes + 1, ms |-> ms])
    /\ pushes' = pushes + 1
    /\ lock' = "writer_pushed"
    /\ UNCHANGED <<pipeVars, healthVars, evalVars, pendingWriters, clearPending,
                   heldFrom, snapVars, callVars>>

\* latencies.push(latency) in the endless run: the samples are not numbered
WriterPushAgain(ms) ==
    /\ lock = "writer"
    /\ latencies' = Append(latencies, [seq |-> 0, ms |-> ms])
    /\ lock' = "writer_pushed"
    /\ UNCHANGED <<pipeVars, healthVars, evalVars, pendingWriters,
                   clearPending, pushes, heldFrom, snapVars, callVars>>

\* variant: the batch is removed at the newest end
trim_newest(w) ==
    IF Len(w) > WINDOW_CAP THEN SubSeq(w, 1, Len(w) - WINDOW_DRAIN) ELSE w

\* if latencies.len() > 1000 { latencies.drain(0..500) }
trim(w) ==
    IF Len(w) > WINDOW_CAP THEN SubSeq(w, WINDOW_DRAIN + 1, Len(w)) ELSE w

\* variant: the write guard is never dropped
WriterTrimKeepsGuard ==
    /\ lock = "writer_pushed"
    /\ latencies' = trim(latencies)
    /\ lock' = "writer_pushed"
    /\ UNCHANGED <<pipeVars, healthVars, evalVars, pendingWriters,
                   clearPending, pushes, heldFrom, snapVars, callVars>>

\* the trim, then the write guard is dropped
WriterTrim ==
    /\ lock = "writer_pushed"
    /\ latencies' = trim(latencies)
    /\ lock' = "free"
    /\ UNCHANGED <<pipeVars, healthVars, evalVars, pendingWriters, clearPending,
                   pushes, heldFrom, snapVars, callVars>>

\* get_metrics is entered, by any caller
SnapBeginCall(budget) ==
    /\ snapPc = 0
    /\ ops < budget
    /\ ops' = ops + 1
    /\ snapPc' = 1
    /\ snap' = [c \in CounterNames |-> 0]
    /\ cleanCur' = TRUE
    /\ snapQuiet' = quiet
    /\ UNCHANGED <<pipeVars, evalVars, latVars, lastSnap, cleanPrev,
                   resetPc, resets, calls, quiet>>

\* get_metrics is called by the /metrics route or another caller
SnapBegin(budget) ==
    /\ SnapBeginCall(budget)
    /\ UNCHANGED healthVars

\* one of the six loads, in program order
SnapLoad ==
    /\ snapPc \in 1..6
    /\ snap' = [snap EXCEPT ![CounterOrder[snapPc]] =
                                 CounterValue(CounterOrder[snapPc])]
    /\ snapPc' = snapPc + 1
    /\ UNCHANGED <<pipeVars, healthVars, evalVars, latVars, lastSnap, cleanCur,
                   cleanPrev, snapQuiet, callVars>>

\* block_on(processing_latencies.read()): the read lock is granted
SnapReadAcquire ==
    /\ snapPc = 7
    /\ lock = "free"
    /\ lock' = "reader"
    /\ heldFrom' = latencySpawned
    /\ snapPc' = 8
    /\ UNCHANGED <<pipeVars, healthVars, evalVars, latencies, pendingWriters,
                   clearPending, pushes, snap, lastSnap, cleanCur,
                   cleanPrev, snapQuiet, callVars>>

\* a ratio of two integers, for the f64 results
RECURSIVE GCD(_, _)
GCD(a, b) == IF b = 0 THEN a ELSE GCD(b, a % b)

\* n / d in lowest terms; a and b are bound so that n and d are computed
\* once
Ratio(n, d) ==
    CHOOSE r \in {[num |-> a \div GCD(a, b), den |-> b \div GCD(a, b)] :
                      a \in {n}, b \in {d}} : TRUE

\* variant: the two atomics are loaded again for the rate
hit_rate_inputs_reloaded(loaded) ==
    [alerts |-> alerts_generated, processed |-> messages_processed]

\* the values the rate is computed from
hit_rate_inputs(loaded) ==
    [alerts |-> loaded["alerts_generated"],
     processed |-> loaded["messages_processed"]]

\* (alerts as f64 / processed as f64) * 100.0, or 0.0
filter_hit_rate(alerts, processed) ==
    IF processed > 0 THEN Ratio(alerts * 100, processed) ELSE Ratio(0, 1)

\* latencies.iter().sum(), by halves of the window w[lo..hi]; a and b are
\* bound so that the ends of the range are computed once
RECURSIVE SumRange(_, _, _)
SumRange(w, lo, hi) ==
    CHOOSE s \in
        {IF a > b THEN 0
         ELSE IF a = b THEN w[a].ms
         ELSE SumRange(w, a, (a + b) \div 2)
                  + SumRange(w, ((a + b) \div 2) + 1, b) :
             a \in {lo}, b \in {hi}} : TRUE

SumMs(w) == SumRange(w, 1, Len(w))

\* latencies.iter().max().unwrap_or(0)
MaxMs(w) ==
    IF w = <<>> THEN 0
    ELSE CHOOSE m \in {w[i].ms : i \in DOMAIN w} :
             \A i \in DOMAIN w : w[i].ms <= m

\* (avg_latency_ms, max_latency_ms) of the cloned window
latency_stats(w) ==
    IF w = <<>>
    THEN [avg |-> Ratio(0, 1), max |-> 0]
    ELSE [avg |-> Ratio(SumMs(w), Len(w)), max |-> MaxMs(w)]

\* the MetricsData that get_metrics returns; stats is bound so that the
\* window is gone through once
MetricsData(loaded, w) ==
    CHOOSE data \in
        {[counts |-> loaded,
          filter_hit_rate |->
              filter_hit_rate(hit_rate_inputs(loaded).alerts,
                              hit_rate_inputs(loaded).processed),
          avg_processing_latency_ms |-> stats.avg,
          max_processing_latency_ms |-> stats.max] :
             stats \in {latency_stats(w)}} : TRUE

\* the clone of the window, the read guard dropped, the result returned
SnapReadClone ==
    /\ snapPc = 8
    /\ lock = "reader"
    /\ lock' = "free"
    /\ lastSnap' = MetricsData(snap, latencies)
    /\ cleanPrev' = cleanCur
    /\ snapPc' = 0
    /\ UNCHANGED <<pipeVars, healthVars, evalVars, latencies, pendingWriters,
                   clearPending, pushes, heldFrom, snap, cleanCur,
                   snapQuiet, callVars>>

\* reset(): one of the six store(0), in program order
ResetStore(budget) ==
    /\ resetPc < 6
    /\ resetPc = 0 => ops < budget
    /\ ops' = IF resetPc = 0 THEN ops + 1 ELSE ops
    /\ SetCounter(CounterOrder[resetPc + 1], 0)
    /\ resetPc' = resetPc + 1
    /\ resets' = IF resetPc = 0 THEN resets + 1 ELSE resets
    /\ cleanCur' = FALSE
    /\ cleanPrev' = FALSE
    /\ quiet' = FALSE
    /\ UNCHANGED <<queue, rxOpen, requests, subscribed, delivered, mqttVars,
                   procVars, lifeVars, healthVars, evalVars, latVars, snapPc, snap,
                   lastSnap, snapQuiet, calls>>

\* reset(): tokio::spawn of the task that will clear the window; reset returns
ResetSpawnClear ==
    /\ resetPc = 6
    /\ clearPending' = clearPending + 1
    /\ resetPc' = 0
    /\ quiet' = TRUE
    /\ UNCHANGED <<pipeVars, healthVars, evalVars, latencies, pendingWriters, lock,
                   pushes, heldFrom, snapVars, resets, calls, ops>>

\* the spawned clear task gets the write lock
ClearAcquire ==
    /\ clearPending > 0
    /\ lock = "free"
    /\ lock' = "clear"
    /\ clearPending' = clearPending - 1
    /\ heldFrom' = latencySpawned
    /\ UNCHANGED <<pipeVars, healthVars, evalVars, latencies, pendingWriters, pushes,
                   snapVars, callVars>>

\* latencies.clear(), then the write guard is dropped
ClearRun ==
    /\ lock = "clear"
    /\ latencies' = <<>>
    /\ lock' = "free"
    /\ UNCHANGED <<pipeVars, healthVars, evalVars, pendingWriters, clearPending,
                   pushes, heldFrom, snapVars, callVars>>

(***************************************************************************)
(* HealthService::check_health: the four checks and the verdict            *)
(***************************************************************************)
\* GET /health: check_health begins with check_wasm_module
HealthStart ==
    /\ mainState = "select"
    /\ healthPc = "idle"
    /\ wasmCheck' = [status |-> check_wasm_module(artifact),
                     last_checked |-> messages_received]
    /\ checks' = [NoChecks EXCEPT
                      !.wasm_module = check_wasm_module(artifact)]
    /\ healthPc' = "mqtt"
    /\ receivedAtStart' = messages_received
    /\ UNCHANGED <<pipeVars, artifact, report, metricsVars, evalVars>>

\* self.metrics.get_metrics() in check_mqtt_connection and in
\* check_message_processing
HealthGetMetrics(budget) ==
    /\ healthPc \in {"mqtt", "processing"}
    /\ SnapBeginCall(budget)
    /\ healthPc' = IF healthPc = "mqtt" THEN "mqtt_read"
                                         ELSE "processing_read"
    /\ UNCHANGED <<artifact, wasmCheck, checks, report, receivedAtStart>>

\* variant: healthy needs both no error and some message
check_mqtt_connection_both(metrics_data) ==
    LET recent_errors == metrics_data.counts["connection_errors"]
        recent_messages == metrics_data.counts["messages_received"]
    IN  IF recent_errors = 0 /\ recent_messages > 0
        THEN "healthy"
        ELSE "degraded"

\* variant: any connection error makes the check degraded
check_mqtt_connection_errors_only(metrics_data) ==
    LET recent_errors == metrics_data.counts["connection_errors"]
    IN  IF recent_errors = 0
        THEN "healthy"
        ELSE "degraded"

\* the status check_mqtt_connection derives from its metrics read
check_mqtt_connection(metrics_data) ==
    LET recent_errors == metrics_data.counts["connection_errors"]
        recent_messages == metrics_data.counts["messages_received"]
    IN  IF recent_errors = 0 \/ recent_messages > 0
        THEN "healthy"
        ELSE "degraded"

\* get_metrics has returned to check_mqtt_connection
HealthCheckMqtt ==
    /\ healthPc = "mqtt_read"
    /\ snapPc = 0
    /\ checks' = [checks EXCEPT
                      !.mqtt_connection = check_mqtt_connection(lastSnap)]
    /\ healthPc' = "memory"
    /\ UNCHANGED <<pipeVars, artifact, wasmCheck, report, receivedAtStart,
                   metricsVars, evalVars>>

\* what get_memory_usage may return: the resident size in MB, or an error
MemoryReadings == {Ok(50), Ok(99), Ok(100), Ok(199), Ok(200), Err("io")}

check_memory_usage(usage) ==
    IF usage.tag = "Err" THEN "unknown"
    ELSE IF usage.val < 100 THEN "healthy"
    ELSE IF usage.val < 200 THEN "warning"
    ELSE "unhealthy"

HealthCheckMemory(usage) ==
    /\ healthPc = "memory"
    /\ checks' = [checks EXCEPT !.memory_usage = check_memory_usage(usage)]
    /\ healthPc' = "processing"
    /\ UNCHANGED <<pipeVars, artifact, wasmCheck, report, receivedAtStart,
                   metricsVars, evalVars>>

\* r < k for a ratio r and an integer k
RatioBelow(r, k) == r.num < k * r.den

\* variant: the rate is a fraction, not a percentage
error_rate_fraction(metrics_data) ==
    LET processing_errors_ == metrics_data.counts["processing_errors"]
        messages_processed_ == metrics_data.counts["messages_processed"]
    IN  IF messages_processed_ > 0
        THEN Ratio(processing_errors_, messages_processed_)
        ELSE Ratio(0, 1)

\* (processing_errors as f64 / messages_processed as f64) * 100.0, or 0.0
error_rate(metrics_data) ==
    LET processing_errors_ == metrics_data.counts["processing_errors"]
        messages_processed_ == metrics_data.counts["messages_processed"]
    IN  IF messages_processed_ > 0
        THEN Ratio(processing_errors_ * 100, messages_processed_)
        ELSE Ratio(0, 1)

check_message_processing(metrics_data) ==
    IF RatioBelow(error_rate(metrics_data), 1) THEN "healthy"
    ELSE IF RatioBelow(error_rate(metrics_data), 5) THEN "warning"
    ELSE "unhealthy"

\* get_metrics has returned to check_message_processing
HealthCheckProcessing ==
    /\ healthPc = "processing_read"
    /\ snapPc = 0
    /\ checks' = [checks EXCEPT
                      !.message_processing =
                          check_message_processing(lastSnap)]
    /\ healthPc' = "verdict"
    /\ UNCHANGED <<pipeVars, artifact, wasmCheck, report, receivedAtStart,
                   metricsVars, evalVars>>

\* variant: a memory check that could not be made is tolerated
is_healthy_unknown_ok(c) ==
    /\ c.wasm_module = "healthy"
    /\ c.mqtt_connection \in {"healthy", "degraded"}
    /\ c.memory_usage \in {"healthy", "warning", "unknown"}
    /\ c.message_processing \in {"healthy", "warning"}

is_healthy(c) ==
    /\ c.wasm_module = "healthy"
    /\ c.mqtt_connection \in {"healthy", "degraded"}
    /\ c.memory_usage \in {"healthy", "warning"}
    /\ c.message_processing \in {"healthy", "warning"}

\* the overall status and the HealthStatus returned
HealthRespond ==
    /\ healthPc = "verdict"
    /\ report' = [status |-> IF is_healthy(checks) THEN "healthy"
                                                     ELSE "unhealthy",
                  checks |-> checks]
    /\ healthPc' = "idle"
    /\ UNCHANGED <<pipeVars, artifact, wasmCheck, checks, receivedAtStart,
                   metricsVars, evalVars>>

(***************************************************************************)
(* A caller of the filter library: the functions applied to one payload    *)
(***************************************************************************)
CallParse ==
    /\ applied' = "parse_welding_message"
    /\ outcome' = parse_welding_message(event)
    /\ UNCHANGED <<pipeVars, healthVars, metricsVars, event, built>>

CallShouldTriggerAlert ==
    /\ event.decodes
    /\ applied' = "should_trigger_alert"
    /\ outcome' = should_trigger_alert(event)
    /\ UNCHANGED <<pipeVars, healthVars, metricsVars, event, built>>

CallGetLineInfo ==
    /\ event.decodes
    /\ applied' = "get_line_info"
    /\ outcome' = get_line_info(event)
    /\ UNCHANGED <<pipeVars, healthVars, metricsVars, event, built>>

CallGenerateQualityAlert(now) ==
    /\ event.decodes
    /\ Len(built) < MaxBuilds
    /\ applied' = "generate_quality_alert"
    /\ outcome' = generate_quality_alert(event, now)
    /\ built' = Append(built, generate_quality_alert(event, now))
    /\ UNCHANGED <<pipeVars, healthVars, metricsVars, event>>

(***************************************************************************)
(* Specifications.                                                         *)
(***************************************************************************)
\* Any payload, WASM runtime errors, publish errors, poll errors, a panic
\* of processing_task and shutdown by ctrl-c or by a task that ended, over
\* MaxMsgs inbound publishes.
Next ==
    \/ \E payload \in Payloads : MqttPollPublish(payload, MaxMsgs)
    \/ MqttPollOutgoing
    \/ MqttPollOther
    \/ MqttPollError
    \/ MqttBackoffElapsed
    \/ MqttSendOk
    \/ MqttSendErr
    \/ ProcRecv
    \/ \E runtime_ok \in BOOLEAN : ProcEvaluate(runtime_ok)
    \/ ProcPublishOk
    \/ ProcPublishErr
    \/ ProcCountAlert
    \/ ProcRecordLatency
    \/ ProcCountProcessed
    \/ ProcRecvNone
    \/ ProcPanic
    \/ MainCtrlC
    \/ MainTaskEnded
    \/ MainReturn
    \/ RuntimeCancelMqtt
    \/ RuntimeCancelProc

Spec == Init /\ [][Next]_vars

\* The fixed input stream, long enough to fill the channel, with no fault
\* and no shutdown.
NextBackpressure ==
    \/ MqttPollPublish(StreamPayload(messages_received + 1),
                       QueueCapacity + MaxOverflow)
    \/ MqttPollOutgoing
    \/ MqttSendOk
    \/ ProcRecv
    \/ ProcEvaluate(TRUE)
    \/ ProcPublishOk
    \/ ProcCountAlert
    \/ ProcRecordLatency
    \/ ProcCountProcessed

SpecBackpressure == Init /\ [][NextBackpressure]_vars

\* The pipeline over LifecycleMsgs inbound publishes, with the scheduling
\* the runtime guarantees: main runs on, a polled task runs to its next
\* await, and a dropped runtime cancels every task.
NextLifecycle ==
    \/ \E payload \in {ScrapFast, MalformedJson} :
           MqttPollPublish(payload, LifecycleMsgs)
    \/ MqttPollOutgoing
    \/ MqttPollOther
    \/ MqttPollError
    \/ MqttBackoffElapsed
    \/ MqttSendOk
    \/ MqttSendErr
    \/ ProcRecv
    \/ \E runtime_ok \in BOOLEAN : ProcEvaluate(runtime_ok)
    \/ ProcPublishOk
    \/ ProcPublishErr
    \/ ProcCountAlert
    \/ ProcRecordLatency
    \/ ProcCountProcessed
    \/ ProcRecvNone
    \/ ProcPanic
    \/ MainCtrlC
    \/ MainTaskEnded
    \/ MainHttpEnded
    \/ MainReturn
    \/ RuntimeCancelMqtt
    \/ RuntimeCancelProc

SpecLifecycle ==
    /\ Init
    /\ [][NextLifecycle]_vars
    /\ WF_vars(MainTaskEnded)
    /\ WF_vars(MainReturn)
    /\ WF_vars(RuntimeCancelMqtt)
    /\ WF_vars(RuntimeCancelProc)
    /\ WF_vars(ProcCountAlert \/ ProcRecordLatency \/ ProcCountProcessed)

\* main from its first line: the module load, the subscription and the
\* spawns, then the pipeline over StartupMsgs inbound publishes while the
\* module file changes on disk and /health is queried.
NextStartup ==
    \/ MainInitWasm
    \/ MainSubscribe
    \/ MainSpawn
    \/ \E file \in ArtifactStates : ArtifactChange(file)
    \/ HealthCheckWasm
    \/ MqttPollPublish(ScrapFast, StartupMsgs)
    \/ MqttPollOutgoing
    \/ MqttSendOk
    \/ ProcRecv
    \/ ProcEvaluate(TRUE)
    \/ ProcPublishOk
    \/ ProcCountAlert
    \/ ProcRecordLatency
    \/ ProcCountProcessed

SpecStartup == InitStartup /\ [][NextStartup]_vars

\* MetricsCollector used by callers on several tasks: MaxOps calls of
\* increment_*, record_processing_latency, get_metrics and reset in any
\* interleaving, with the tasks they spawn.
NextMetrics ==
    \/ \E c \in CounterNames : MetricsIncrement(c, MaxOps)
    \/ RecordLatency(MaxOps)
    \/ WriterAcquire
    \/ \E ms \in Durations : WriterPush(ms)
    \/ WriterTrim
    \/ SnapBegin(MaxOps)
    \/ SnapLoad
    \/ SnapReadAcquire
    \/ SnapReadClone
    \/ ResetStore(MaxOps)
    \/ ResetSpawnClear
    \/ ClearAcquire
    \/ ClearRun

SpecMetrics == Init /\ [][NextMetrics]_vars

\* The latency window filled past its capacity of WINDOW_CAP samples.
NextWindow ==
    \/ RecordLatency(WINDOW_CAP + MaxExtraSamples)
    \/ WriterAcquire
    \/ WriterPush(SampleMs)
    \/ WriterTrim

SpecWindow == Init /\ [][NextWindow]_vars

\* The pipeline over LatencyMsgs inbound publishes together with the
\* spawned latency tasks and get_metrics.
NextLatency ==
    \/ MqttPollPublish(ScrapFast, LatencyMsgs)
    \/ MqttPollOutgoing
    \/ MqttSendOk
    \/ ProcRecv
    \/ ProcEvaluate(TRUE)
    \/ ProcPublishOk
    \/ ProcCountAlert
    \/ ProcRecordLatency
    \/ ProcCountProcessed
    \/ WriterAcquire
    \/ WriterPush(SampleMs)
    \/ WriterTrim
    \/ SnapBegin(LatencySnaps)
    \/ SnapLoad
    \/ SnapReadAcquire
    \/ SnapReadClone

SpecLatency == Init /\ [][NextLatency]_vars

\* get_metrics while the processing loop records latencies without end.
\* A latency task that holds the write guard runs to the end of its block
\* (no await between the grant and the drop), and get_metrics runs on its
\* own thread: weak fairness of their steps.  The RwLock of tokio queues
\* its waiters first in, first out, so a reader that waits is not passed
\* over for ever by writers that arrive later: strong fairness of the
\* grant of the read lock.
NextReaders ==
    \/ RecordLatencyAgain
    \/ WriterAcquire
    \/ WriterPushAgain(SampleMs)
    \/ WriterTrim
    \/ SnapBegin(LatencySnaps)
    \/ SnapLoad
    \/ SnapReadAcquire
    \/ SnapReadClone

SpecReaders ==
    /\ Init
    /\ [][NextReaders]_vars
    /\ WF_vars(WriterPushAgain(SampleMs))
    /\ WF_vars(WriterTrim)
    /\ WF_vars(SnapLoad)
    /\ SF_vars(SnapReadAcquire)
    /\ WF_vars(SnapReadClone)

\* The functions of the filter library applied to one payload out of
\* Events, in any order.
InitFilter ==
    /\ InitTasks
    /\ InitCounters
    /\ artifact = ModuleFile
    /\ wasmCheck = NoCheck
    /\ InitHealth
    /\ InitMetrics
    /\ event \in Events
    /\ applied = "none"
    /\ outcome = None
    /\ built = <<>>

NextFilter ==
    \/ CallParse
    \/ CallShouldTriggerAlert
    \/ CallGetLineInfo
    \/ \E now \in 1..MaxClock : CallGenerateQualityAlert(now)

SpecFilter == InitFilter /\ [][NextFilter]_vars

\* counter values the program has reached when a health request arrives
ProcessedValues == {0, 1, 100, 101}
ErrorValues == {0, 1, 5}

\* The health service answering requests while the counters move.
InitHealthRun ==
    /\ InitTasks
    /\ messages_processed \in ProcessedValues
    /\ processing_errors \in {e \in ErrorValues : e <= messages_processed + 1}
    /\ messages_received \in {messages_processed, messages_processed + 1}
    /\ connection_errors \in {0, 1}
    /\ alerts_generated = 0
    /\ publish_errors = 0
    /\ artifact \in ArtifactStates
    /\ wasmCheck = NoCheck
    /\ InitHealth
    /\ InitNoCaller
    /\ InitMetrics

NextHealth ==
    \/ \E c \in {"messages_received", "processing_errors",
                  "connection_errors"} :
           MetricsIncrement(c, HealthOps)
    \/ HealthStart
    \/ HealthGetMetrics(HealthOps)
    \/ SnapLoad
    \/ SnapReadAcquire
    \/ SnapReadClone
    \/ HealthCheckMqtt
    \/ \E usage \in MemoryReadings : HealthCheckMemory(usage)
    \/ HealthCheckProcessing
    \/ HealthRespond

SpecHealth == InitHealthRun /\ [][NextHealth]_vars

\* A burst of inbound publishes long enough to fill the channel and the
\* request buffer of the client: the first RequestCapacity + 1 raise an
\* alert, the others do not.  No fault, no shutdown and no reset.  Each
\* poll() yields one event: an inbound publish or a request taken from the
\* buffer.
BurstPayload(id) == IF id <= RequestCapacity + 1 THEN ScrapFast ELSE GoodFast

NextBurst ==
    \/ MqttPollPublish(BurstPayload(messages_received + 1),
                       QueueCapacity + RequestCapacity + 2)
    \/ MqttPollOutgoing
    \/ MqttSendOk
    \/ ProcRecv
    \/ ProcEvaluate(TRUE)
    \/ ProcPublishOk
    \/ ProcCountAlert
    \/ ProcRecordLatency
    \/ ProcCountProcessed

SpecBurst == Init /\ [][NextBurst]_vars

(***************************************************************************)
(* Properties.                                                             *)
(***************************************************************************)
Ids(log) == {log[i].id : i \in DOMAIN log}
Elems(log) == {log[i] : i \in DOMAIN log}
NoDuplicates(log) ==
    \A i, j \in DOMAIN log : i # j => log[i] # log[j]
Increasing(log) ==
    \A i, j \in DOMAIN log : i < j => log[i] < log[j]
IdsIncreasing(log) ==
    \A i, j \in DOMAIN log : i < j => log[i].id < log[j].id
\* processing_task holds a dequeued item
InItem == procPc \in {"process", "publish", "count_alert", "latency",
                      "count_processed", "ended"}

\* C1: every dequeued item gets exactly one record_processing_latency call
\* and exactly one messages_processed increment, whatever its outcome: none
\* of the two before the outcome of the item is counted, the latency call
\* first, and both done when the loop is back at rx.recv() for the next item.
C1_LatencyAndProcessedOncePerItem ==
    /\ procPc = "recv" =>
           latencySpawned = dequeued /\ messages_processed = dequeued
    /\ procPc \in {"process", "publish", "count_alert", "latency", "ended"} =>
           latencySpawned = dequeued - 1 /\ messages_processed = dequeued - 1
    /\ procPc = "count_processed" =>
           latencySpawned = dequeued /\ messages_processed = dequeued - 1
    /\ procPc \in {"latency", "count_processed"} =>
           /\ evalLog # <<>> /\ evalLog[Len(evalLog)] = procItem.id
           /\ alerts_generated + publish_errors + processing_errors
                  <= messages_processed + 1

\* three items done: one alert published, one processing error, one without
\* alert
C1_Witness ==
    /\ procPc = "recv"
    /\ messages_processed = 3
    /\ alerts_generated = 1
    /\ processing_errors = 1
    /\ publish_errors = 0

\* C2: an item that yields an alert gets exactly one publish call; when the
\* call succeeds alerts_generated grows by one and publish_errors and
\* processing_errors stay, when it fails publish_errors grows by one and
\* alerts_generated and processing_errors stay; in both cases the loop goes
\* on to the latency call and the item does not come back into the channel.
C2_OnePublishAttemptCounted ==
    [][ /\ pubLog' # pubLog =>
            /\ procPc = "publish"
            /\ pubLog' = Append(pubLog, procItem)
            /\ procItem \notin Elems(pubLog)
            /\ \/ /\ procPc' = "count_alert"
                  /\ requests' = Append(requests,
                         [kind |-> "publish", id |-> procItem.id,
                          alert |-> procAlert.val])
                  /\ counters' = counters
               \/ /\ procPc' = "latency"
                  /\ requests' = requests
                  /\ publish_errors' = publish_errors + 1
                  /\ alerts_generated' = alerts_generated
                  /\ processing_errors' = processing_errors
        /\ procPc = "count_alert" /\ procPc' # "count_alert" =>
            /\ procPc' = "latency"
            /\ alerts_generated' = alerts_generated + 1
            /\ publish_errors' = publish_errors
            /\ processing_errors' = processing_errors
        /\ alerts_generated' # alerts_generated => procPc = "count_alert"
        /\ publish_errors' # publish_errors => procPc = "publish"
        /\ \A i \in DOMAIN queue' : queue'[i].id \notin Ids(pubLog')
      ]_vars

\* one publish succeeded and was counted, another one failed
C2_Witness ==
    /\ alerts_generated = 1
    /\ publish_errors = 1
    /\ Len(pubLog) = 2
    /\ procPc = "recv"

\* C3: an item whose payload does not decode, or decodes to a message that
\* is not a valid operation, makes processing_errors grow by one when it is
\* evaluated.
C3_BadPayloadCountsProcessingError ==
    [][ (/\ procPc = "process"
         /\ procPc' \notin {"process", "ended"}
         /\ parse_welding_message(procItem.payload).tag = "Err")
        => processing_errors' = processing_errors + 1 ]_vars

\* C4: every item is evaluated at most once and publish is called at most
\* once for it, also after a publish error or a processing error; an item
\* that was taken from the channel is no longer in it.
C4_AtMostOnce ==
    /\ NoDuplicates(evalLog)
    /\ NoDuplicates(pubLog)
    /\ Ids(pubLog) \subseteq {evalLog[i] : i \in DOMAIN evalLog}
    /\ Len(evalLog) <= dequeued
    /\ NoDuplicates(queue)
    /\ \A i \in DOMAIN queue :
           /\ queue[i].id \notin {evalLog[j] : j \in DOMAIN evalLog}
           /\ InItem => queue[i].id # procItem.id

\* three items evaluated, one after a publish error and one after a
\* processing error
C4_Witness ==
    /\ Len(evalLog) = 3
    /\ publish_errors = 1
    /\ processing_errors = 1
    /\ messages_processed = 3
    /\ queue = <<>>

\* the message satisfies the validity invariant and the filter predicate
ValidAndFiring(m) ==
    /\ m.decodes
    /\ m.machine_id # <<"">>
    /\ m.last_cycle_time > 0
    /\ m.quality \in {"good", "scrap", "rework"}
    /\ m.status \in {"running", "idle", "cooling", "faulted"}
    /\ m.quality = "scrap"
    /\ m.last_cycle_time < 70

\* C5: every alert handed to publish, waiting in the client or taken by the
\* event loop, was built from a dequeued item whose payload decodes to a
\* valid message with quality scrap and a cycle time below 7.0.
C5_AlertsOnlyFromValidFiringEvents ==
    /\ \A i \in DOMAIN pubLog : ValidAndFiring(pubLog[i].payload)
    /\ \A r \in Elems(requests) \cup Elems(delivered) :
           r.kind = "publish" =>
               \E it \in Elems(pubLog) :
                   /\ it.id = r.id
                   /\ r.alert.source_machine = it.payload.machine_id
                   /\ r.alert.trigger_conditions.quality = "scrap"
                   /\ r.alert.trigger_conditions.cycle_time
                          = it.payload.last_cycle_time
    /\ procPc \in {"publish", "count_alert"} =>
           ValidAndFiring(procItem.payload)

\* an alert was taken by the event loop, and an invalid message with a scrap
\* verdict and a cycle time below the threshold went by without publish
C5_Witness ==
    /\ Len(delivered) = 1
    /\ procPc = "latency"
    /\ procItem.payload \in {ZeroCycle, UpperScrap}
    /\ processing_errors = 0
    /\ Len(pubLog) = 1

\* C6: items are handled in the order in which mqtt_task received them:
\* the channel holds them in that order, rx.recv() takes the oldest one,
\* and it is taken only when the item before it is completely handled
\* (messages_processed counted).
C6_FifoOrder ==
    /\ [](/\ IdsIncreasing(queue)
          /\ Increasing(evalLog)
          /\ IdsIncreasing(pubLog)
          /\ \A i \in DOMAIN queue :
                 /\ InItem => procItem.id < queue[i].id
                 /\ mqttPc = "send" => queue[i].id < mqttItem.id
                 /\ \A j \in DOMAIN evalLog : evalLog[j] < queue[i].id)
    /\ [][ dequeued' # dequeued =>
             /\ queue # <<>>
             /\ \A i \in DOMAIN queue : procItem'.id <= queue[i].id
             /\ \A j \in DOMAIN evalLog : evalLog[j] < procItem'.id
             /\ messages_processed = dequeued
             /\ procPc = "recv" ]_vars

\* the second item is taken while the third waits behind it
C6_Witness ==
    /\ procPc = "process"
    /\ procItem.id = 2
    /\ Len(queue) = 1
    /\ queue[1].id = 3
    /\ evalLog = <<1>>

\* C7: the channel never holds more than 100 items; while it is full
\* mqtt_task stays in tx.send() with its item, polls nothing and counts
\* nothing, and every received item is in the channel, in tx.send() or was
\* taken by processing_task: none is lost.
C7_BoundedBlockingQueue ==
    /\ [](/\ Len(queue) <= 100
          /\ messages_received
                 = Len(queue) + dequeued + (IF mqttPc = "send" THEN 1 ELSE 0)
          /\ mqttPc = "send" => mqttItem.id = messages_received)
    /\ [][ (mqttPc = "send" /\ Len(queue) = 100) =>
             /\ mqttPc' = "send"
             /\ mqttItem' = mqttItem
             /\ lastEvent' = lastEvent
             /\ messages_received' = messages_received
             /\ Len(queue') = 99 => dequeued' = dequeued + 1 ]_vars

\* mqtt_task waits in tx.send() on the full channel, after items were taken
C7_Witness ==
    /\ Len(queue) = 100
    /\ mqttPc = "send"
    /\ dequeued >= 2

\* a poll step that yields no inbound publish
OtherPollStep ==
    \/ lastEvent' # lastEvent /\ lastEvent' \in {"other", "outgoing"}
    \/ Len(requests') < Len(requests)

\* C8: an inbound publish makes messages_received grow by exactly one
\* before anything is enqueued and leaves mqtt_task with exactly that
\* (topic, payload) item to send, whatever the payload is; the send attempt
\* that follows enqueues that one item or fails; other broker events change
\* no counter and enqueue nothing.
C8_ReceivedThenEnqueue ==
    [][ /\ messages_received' # messages_received =>
            /\ mqttPc = "poll" /\ mqttPc' = "send"
            /\ messages_received' = messages_received + 1
            /\ mqttItem'.id = messages_received'
            /\ lastEvent' = "publish"
            /\ queue' = queue
            /\ <<messages_processed, alerts_generated, processing_errors,
                 connection_errors, publish_errors>>'
               = <<messages_processed, alerts_generated, processing_errors,
                   connection_errors, publish_errors>>
        /\ (mqttPc = "poll" /\ lastEvent' = "publish"
                /\ (lastEvent # "publish" \/ mqttPc' = "send")) =>
            messages_received' = messages_received + 1
        /\ Len(queue') > Len(queue) =>
            /\ mqttPc = "send" /\ mqttPc' = "poll"
            /\ queue' = Append(queue, mqttItem)
            /\ counters' = counters
        /\ (mqttPc = "send" /\ mqttPc' \notin {"send", "cancelled"}) =>
            /\ mqttPc' = "poll"
            /\ queue' = Append(queue, mqttItem) \/ (~rxOpen /\ queue' = queue)
        /\ OtherPollStep => counters' = counters /\ queue' = queue
      ]_vars

\* a payload that does not decode is in the channel, counted as received
C8_Witness ==
    /\ messages_received = 2
    /\ Len(queue) = 2
    /\ queue[2].payload = MalformedJson
    /\ lastEvent = "publish"
    /\ mqttPc = "poll"

\* C9: a poll error makes connection_errors grow by exactly one, changes no
\* other counter and enqueues nothing; mqtt_task then sleeps and goes back
\* to polling: it is always polling, sending or sleeping.
C9_PollErrorBackoff ==
    /\ [](/\ mqttPc \in {"poll", "send", "sleep", "cancelled"}
          /\ mqttPc = "cancelled" => mainState = "stopped")
    /\ [](mqttPc = "sleep" => ENABLED MqttBackoffElapsed)
    /\ [][ /\ connection_errors' # connection_errors =>
               /\ mqttPc = "poll" /\ mqttPc' = "sleep"
               /\ connection_errors' = connection_errors + 1
               /\ lastEvent' = "error"
               /\ queue' = queue /\ mqttItem' = mqttItem
               /\ <<messages_received, messages_processed, alerts_generated,
                    processing_errors, publish_errors>>'
                  = <<messages_received, messages_processed, alerts_generated,
                      processing_errors, publish_errors>>
           /\ (mqttPc = "poll" /\ mqttPc' \notin {"poll", "send", "cancelled"}) =>
               connection_errors' = connection_errors + 1
           /\ (mqttPc = "sleep" /\ mqttPc' \notin {"sleep", "cancelled"}) =>
               mqttPc' = "poll" /\ counters' = counters /\ queue' = queue
         ]_vars

\* polling again after the second poll error
C9_Witness ==
    /\ connection_errors = 2
    /\ lastEvent = "error"
    /\ mqttPc = "poll"

\* C10: when tx.send() fails because the Receiver is gone, the item is
\* dropped, messages_received keeps the increment made for it, mqtt_task
\* goes back to polling, and the dropped item is never evaluated.
C10_SendFailureDropsItem ==
    /\ [](\A id \in dropped :
              /\ id >= 1 /\ id <= messages_received
              /\ id \notin {evalLog[j] : j \in DOMAIN evalLog}
              /\ id \notin Ids(queue)
              /\ procItem.id # id
              /\ id \notin Ids(pubLog))
    /\ [][ (mqttPc = "send" /\ ~rxOpen /\ mqttPc' \notin {"send", "cancelled"}) =>
             /\ mqttPc' = "poll"
             /\ dropped' = dropped \cup {mqttItem.id}
             /\ counters' = counters
             /\ queue' = queue ]_vars

\* a publish polled after an item was dropped
C10_Witness ==
    /\ dropped = {2}
    /\ messages_received = 3
    /\ mqttPc = "send"
    /\ mqttItem.id = 3

\* both spawned tasks are gone and main has returned
AllTasksDown ==
    /\ mainState = "stopped"
    /\ mqttPc = "cancelled"
    /\ procPc \in {"cancelled", "ended", "done"}

\* C11: the while let loop of processing_task ends only from rx.recv(),
\* with every Sender (the one of main and the one of mqtt_task) dropped and
\* the channel empty; it never ends while a Sender is alive, and when it
\* ends every item that entered the channel has been evaluated and counted.
C11_EndsOnlyClosedAndDrained ==
    /\ [](procPc = "done" =>
              /\ senders = {}
              /\ queue = <<>>
              /\ abandoned = {}
              /\ messages_processed = dequeued
              /\ dequeued = Len(evalLog)
              /\ \A id \in 1..messages_received :
                     id \in dropped
                         \/ id \in {evalLog[j] : j \in DOMAIN evalLog})
    /\ [](senders # {} => procPc # "done")
    /\ [][ (procPc' = "done" /\ procPc # "done") =>
             procPc = "recv" /\ queue = <<>> /\ senders = {} ]_vars

\* the loop ended after it handled two items that were queued when the last
\* Sender was dropped
C11_Witness ==
    /\ procPc = "done"
    /\ queuedAtClose = 2
    /\ messages_processed = 3

\* C12: main leaves the select! only for ctrl-c or for a task that ended;
\* when processing_task has ended (also by a panic) the select! can
\* complete at once; and after a task ended or main left the select!, main
\* returns and the runtime cancels the tasks that are left.
C12_CoordinatedShutdown ==
    /\ [][ (mainState = "select" /\ mainState' # "select") =>
             /\ mainState' = "left"
             /\ leftBy' \in {"ctrl_c", "processing_task", "mqtt_task",
                             "http_server"}
             /\ leftBy' = "processing_task" => procPc \in {"ended", "done"}
             /\ leftBy' = "mqtt_task" => mqttPc = "ended" ]_vars
    /\ []((mainState = "select" /\ procPc = "ended") => ENABLED MainTaskEnded)
    /\ ((procPc = "ended" \/ mainState # "select") ~> AllTasksDown)

\* the runtime cancelled mqtt_task after processing_task ended by a panic
C12_Witness ==
    /\ leftBy = "processing_task"
    /\ procPc = "ended"
    /\ mqttPc = "cancelled"
    /\ mainState = "stopped"

\* C13 as stated: once main has left the select!, no item is dequeued, no
\* publish is attempted and no counter changes.
C13_NothingAfterLeavingSelect ==
    [][ mainState # "select" =>
          /\ dequeued' = dequeued
          /\ pubLog' = pubLog
          /\ counters' = counters ]_vars

\* C13 amended: the step that cancels processing_task evaluates and counts
\* nothing and drops the queued items, which are never evaluated; once both
\* tasks are gone nothing is dequeued, published or counted any more.
C13_AbandonedAtCancellation ==
    /\ [](abandoned \cap {evalLog[j] : j \in DOMAIN evalLog} = {})
    /\ [](procPc = "cancelled" => queue = <<>> /\ ~rxOpen)
    /\ [][ (procPc' = "cancelled" /\ procPc # "cancelled") =>
             /\ abandoned' = abandoned \cup Ids(queue)
             /\ dequeued' = dequeued
             /\ evalLog' = evalLog
             /\ pubLog' = pubLog
             /\ counters' = counters ]_vars
    /\ [][ AllTasksDown =>
             /\ dequeued' = dequeued
             /\ evalLog' = evalLog
             /\ pubLog' = pubLog
             /\ requests' = requests
             /\ counters' = counters ]_vars

\* two queued items were dropped at the cancellation, after one was handled
C13_Witness ==
    /\ AllTasksDown
    /\ procPc = "cancelled"
    /\ abandoned = {2, 3}
    /\ messages_processed = 1


\* C14: main leaves its first position to "failed" exactly when the module
\* does not load, and then nothing was subscribed, no task was spawned and
\* nothing is ever received or processed; once the tasks run, a change of
\* the module file changes nothing of the pipeline, each task can take its
\* next step whatever the file is, and only the wasm_module health entry
\* follows the file.
C14_ModuleUnavailable ==
    /\ [][ (mainState = "startup" /\ mainState' # "startup") =>
             /\ (mainState' = "failed")
                    = (WasmQualityFilter_new(artifact).tag = "Err")
             /\ (mainState' = "loaded")
                    = (WasmQualityFilter_new(artifact).tag = "Ok") ]_vars
    /\ [](mainState = "failed" =>
             /\ requests = <<>>
             /\ senders = {}
             /\ mqttPc = "unspawned"
             /\ procPc = "unspawned"
             /\ messages_received = 0
             /\ messages_processed = 0
             /\ wasmCheck = NoCheck)
    /\ [][ mainState = "failed" => pipeVars' = pipeVars ]_vars
    /\ [][ artifact' # artifact => pipeVars' = pipeVars ]_vars
    /\ [][ wasmCheck' # wasmCheck =>
             /\ pipeVars' = pipeVars
             /\ wasmCheck'.status = IF artifact = ModuleFile
                                    THEN "healthy" ELSE "unhealthy" ]_vars
    /\ [](mainState = "select" =>
             /\ procPc = "process" => ENABLED ProcEvaluate(TRUE)
             /\ (procPc = "recv" /\ queue # <<>>) => ENABLED ProcRecv
             /\ (mqttPc = "send" /\ HasCapacity(queue)) => ENABLED MqttSendOk
             /\ ENABLED HealthCheckWasm)

\* the health report called the module unhealthy before any message came,
\* the file is still missing, and a message was received, evaluated and
\* its alert published since
C14_Witness ==
    /\ artifact = NoFile
    /\ wasmCheck = [status |-> "unhealthy", last_checked |-> 0]
    /\ messages_processed = 1
    /\ alerts_generated = 1


\* get_metrics returns in this step
SnapReturns == snapPc = 8 /\ snapPc' = 0

\* C15: no step other than a store of reset lowers a counter, and when
\* get_metrics returns, with no store of reset since the call before it
\* began, every counter it returns is at least the one returned before.
C15_CountersMonotoneBetweenResets ==
    /\ [][ resetPc' = resetPc =>
             /\ messages_received' >= messages_received
             /\ messages_processed' >= messages_processed
             /\ alerts_generated' >= alerts_generated
             /\ processing_errors' >= processing_errors
             /\ connection_errors' >= connection_errors
             /\ publish_errors' >= publish_errors ]_vars
    /\ [][ (SnapReturns /\ lastSnap # NoSnap /\ cleanPrev /\ cleanCur) =>
             \A c \in CounterNames :
                 lastSnap.counts[c] <= lastSnap'.counts[c] ]_vars

\* after a reset, a second get_metrics is about to return a larger
\* messages_processed than the first, with no reset between them
C15_Witness ==
    /\ snapPc = 8
    /\ resets = 1
    /\ lastSnap # NoSnap
    /\ cleanPrev
    /\ cleanCur
    /\ snap["messages_processed"] > lastSnap.counts["messages_processed"]

\* C16: as long as reset has not been called, each counter equals the
\* number of increment calls made on it, in every interleaving with the
\* loads of get_metrics.
C16_NoIncrementLost ==
    resets = 0 => \A c \in CounterNames : CounterValue(c) = calls[c]

\* three increments, two of them on one counter, made while get_metrics is
\* between its loads
C16_Witness ==
    /\ resets = 0
    /\ snapPc = 3
    /\ calls["messages_processed"] = 2
    /\ calls["alerts_generated"] = 1
    /\ snap["messages_processed"] = 1

\* C17: the filter_hit_rate of a returned MetricsData is alerts_generated
\* x 100 / messages_processed of that same MetricsData, and 0 when its
\* messages_processed is 0; 3 alerts in 10 processed give 30.
C17_HitRateFromSameSnapshot ==
    /\ lastSnap # NoSnap =>
           LET a == lastSnap.counts["alerts_generated"]
               p == lastSnap.counts["messages_processed"]
               r == lastSnap.filter_hit_rate
           IN  /\ r.den > 0
               /\ p = 0 => r.num = 0
               /\ p > 0 => r.num * p = a * 100 * r.den
    /\ filter_hit_rate(3, 10).num = 30 * filter_hit_rate(3, 10).den
    /\ filter_hit_rate(3, 0).num = 0

\* a MetricsData with rate 100 (1 alert, 1 processed) was returned, and
\* messages_processed has been incremented again since it was loaded
C17_Witness ==
    /\ lastSnap # NoSnap
    /\ lastSnap.counts["messages_processed"] = 1
    /\ lastSnap.counts["alerts_generated"] = 1
    /\ lastSnap.filter_hit_rate = Ratio(100, 1)
    /\ messages_processed = 2

\* C18 as stated: a get_metrics that began after reset returned, with no
\* increment and no record_processing_latency call since, returns six
\* zero counters, average latency 0 and maximum latency 0.
C18_ResetClearsEverything ==
    [][ (SnapReturns /\ snapQuiet /\ quiet) =>
          /\ \A c \in CounterNames : lastSnap'.counts[c] = 0
          /\ lastSnap'.avg_processing_latency_ms.num = 0
          /\ lastSnap'.max_processing_latency_ms = 0 ]_vars

\* C19: whenever the lock is not held by a latency task between its push
\* and its trim, the window holds at most WINDOW_CAP samples; the task
\* that pushes sample WINDOW_CAP + 1 leaves, when it drops the lock, the
\* WINDOW_CAP + 1 - WINDOW_DRAIN samples pushed last, in order.
C19_WindowBounded ==
    /\ [](Len(latencies) <= WINDOW_CAP + 1)
    /\ [](lock # "writer_pushed" => Len(latencies) <= WINDOW_CAP)
    /\ [][ (lock = "writer_pushed" /\ lock' # lock
                /\ Len(latencies) = WINDOW_CAP + 1) =>
             /\ lock' = "free"
             /\ Len(latencies') = WINDOW_CAP + 1 - WINDOW_DRAIN
             /\ \A i \in DOMAIN latencies' :
                    latencies'[i].seq = pushes - Len(latencies') + i ]_vars
    /\ [][ (lock = "writer_pushed" /\ lock' # lock
                /\ Len(latencies) <= WINDOW_CAP) =>
             latencies' = latencies ]_vars

\* one more sample was pushed after the trim that followed sample 1001
C19_Witness ==
    /\ pushes = WINDOW_CAP + 2
    /\ lock = "free"
    /\ Len(latencies) = WINDOW_CAP + 2 - WINDOW_DRAIN
    /\ latencies[1].seq = WINDOW_DRAIN + 1

\* C20: at its record_processing_latency call processing_task can always
\* step, whoever holds the lock; the step leaves the lock and the window
\* alone and only adds a pending task; the increment and the next recv
\* that follow do not depend on the lock either.
C20_ProcessingNeverWaitsForLock ==
    /\ [](procPc = "latency" => ENABLED ProcRecordLatency)
    /\ [](procPc = "count_processed" => ENABLED ProcCountProcessed)
    /\ []((procPc = "recv" /\ queue # <<>>) => ENABLED ProcRecv)
    /\ [][ (procPc = "latency" /\ procPc' # "latency") =>
             /\ procPc' = "count_processed"
             /\ lock' = lock
             /\ latencies' = latencies
             /\ pendingWriters' = pendingWriters + 1 ]_vars

\* while get_metrics holds the read lock it took before the first latency
\* call, processing_task made that call, counted the item and dequeued
\* the next one
C20_Witness ==
    /\ lock = "reader"
    /\ heldFrom = 0
    /\ latencySpawned = 1
    /\ messages_processed = 1
    /\ dequeued = 2


\* C22: should_trigger_alert(e) is true exactly when the lower-cased quality
\* of e is "scrap" and its cycle time is strictly below 7.0, whatever the
\* other fields of e are; a cycle time of exactly 7.0 does not alert.
C22_AlertIffScrapAndFast ==
    applied = "should_trigger_alert" =>
        /\ outcome = TRUE <=>
               /\ event.quality \in {"scrap", "SCRAP", "Scrap"}
               /\ event.last_cycle_time < 70
        /\ outcome \in BOOLEAN
        /\ event.last_cycle_time = 70 => outcome = FALSE

\* an alerting message whose other fields are not those of a valid one
C22_Witness ==
    /\ applied = "should_trigger_alert"
    /\ outcome = TRUE
    /\ event.quality = "Scrap"
    /\ event.last_cycle_time = 69
    /\ event.status = "offline"
    /\ event.machine_id = <<"">>

\* C23: severity and recommended action of every alert follow from
\* deviation = 7.0 - cycle time and agree: deviation >= 2.0 gives (high,
\* immediate_inspection_required), 1.0 <= deviation < 2.0 gives (medium,
\* investigate_welding_parameters), deviation < 1.0 gives (low,
\* monitor_next_cycle); a scrap message with cycle time 6.5 gives low.
C23_SeverityAndActionAgree ==
    \A i \in DOMAIN built :
        LET deviation == 70 - event.last_cycle_time
            pair == <<built[i].severity, built[i].recommended_action>>
        IN  /\ deviation >= 20 =>
                pair = <<"high", "immediate_inspection_required">>
            /\ (deviation >= 10 /\ deviation < 20) =>
                pair = <<"medium", "investigate_welding_parameters">>
            /\ deviation < 10 =>
                pair = <<"low", "monitor_next_cycle">>
            /\ (event.quality = "scrap" /\ event.last_cycle_time = 65) =>
                built[i].severity = "low"

\* an alert at the lower end of the medium band, deviation 1.0
C23_Witness ==
    /\ built # <<>>
    /\ event.last_cycle_time = 60
    /\ event.quality = "scrap"
    /\ built[1].severity = "medium"
    /\ built[1].recommended_action = "investigate_welding_parameters"

\* C24: get_line_info gives (LINE-<token1>, STATION-<token3>) exactly when
\* the machine_id, split on '-', has at least 4 tokens with token0 = "LINE"
\* and token2 = "STATION", and None otherwise; LINE-1-STATION-C-01 gives
\* (LINE-1, STATION-C) and MACHINE-07 gives None.
C24_LineInfoFromTokens ==
    applied = "get_line_info" =>
        LET t == event.machine_id
        IN  /\ outcome =
                IF Len(t) >= 4 /\ t[1] = "LINE" /\ t[3] = "STATION"
                THEN Some(<<<<"LINE", t[2]>>, <<"STATION", t[4]>>>>)
                ELSE None
            /\ t = <<"LINE", "1", "STATION", "C", "01">> =>
                outcome = Some(<<<<"LINE", "1">>, <<"STATION", "C">>>>)
            /\ t = <<"MACHINE", "07">> => outcome = None

\* the four-token identifier, the shortest one with a location
C24_Witness ==
    /\ applied = "get_line_info"
    /\ event.machine_id = <<"LINE", "1", "STATION", "C">>
    /\ outcome = Some(<<<<"LINE", "1">>, <<"STATION", "C">>>>)

\* C25: an alert has a location only if its source identifier has the full
\* form LINE-<n>-STATION-<s>-<m>, machine number included; LINE-1-STATION-C
\* gives an alert with no location.
C25_LocationOnlyWithMachineNumber ==
    \A i \in DOMAIN built :
        LET t == built[i].source_machine
        IN  /\ built[i].line_info # None =>
                Len(t) = 5 /\ t[1] = "LINE" /\ t[3] = "STATION"
            /\ t = <<"LINE", "1", "STATION", "C">> =>
                built[i].line_info = None

\* C26: parse_welding_message returns the message exactly when the payload
\* decodes and the message is valid; a payload that does not decode fails
\* with the decode error, one that decodes to an invalid message (cycle time
\* not above 0, empty machine_id, quality or status outside their sets)
\* fails with the other error, "Invalid welding operation data".
C26_ParseOkIffDecodesAndValid ==
    applied = "parse_welding_message" =>
        LET valid ==
                /\ event.last_cycle_time > 0
                /\ event.machine_id # <<"">>
                /\ event.quality \in {"good", "scrap", "rework"}
                /\ event.status \in {"running", "idle", "cooling", "faulted"}
        IN  /\ outcome.tag = "Ok" <=> (event.decodes /\ valid)
            /\ outcome.tag = "Ok" => outcome.val = event
            /\ ~event.decodes => outcome = Err("decode")
            /\ (event.decodes /\ ~valid) =>
                /\ outcome = Err("Invalid welding operation data")
                /\ outcome # Err("decode")

\* a payload that decodes to a message with cycle time 0
C26_Witness ==
    /\ applied = "parse_welding_message"
    /\ event.decodes
    /\ event.last_cycle_time = 0
    /\ event.quality = "scrap"
    /\ event.status = "running"
    /\ outcome = Err("Invalid welding operation data")

\* C27: two alerts built from the same message agree on every field except
\* the timestamp, and source, quality, cycle time and the assembly fields
\* are those of the message, with threshold 7.0.
C27_BuildTwiceSameButTimestamp ==
    /\ \A i, j \in DOMAIN built :
           [built[i] EXCEPT !.timestamp = 0] =
               [built[j] EXCEPT !.timestamp = 0]
    /\ \A i \in DOMAIN built :
           /\ built[i].alert_type = "quality_control"
           /\ built[i].source_machine = event.machine_id
           /\ built[i].trigger_conditions =
                  [quality |-> event.quality,
                   cycle_time |-> event.last_cycle_time,
                   threshold |-> 70]
           /\ built[i].assembly_details =
                  [assembly_type |-> event.assembly_type,
                   id |-> event.assembly_id,
                   station_id |-> event.station_id]

\* two alerts built at different clock readings from an upper-case verdict
C27_Witness ==
    /\ Len(built) = 2
    /\ built[1].timestamp # built[2].timestamp
    /\ event.quality = "SCRAP"
    /\ event.assembly_type = "DoorAssembly"


\* C28: the overall status of a health report is healthy exactly when
\* wasm_module is healthy, mqtt_connection is healthy or degraded,
\* memory_usage is healthy or warning and message_processing is healthy or
\* warning; every other combination is unhealthy, among them an unknown
\* memory_usage and an unhealthy wasm_module with all else healthy.
C28_VerdictFromFourChecks ==
    report # NoReport =>
        LET c == report.checks
        IN  /\ report.status \in {"healthy", "unhealthy"}
            /\ report.status = "healthy" <=>
                   /\ c.wasm_module = "healthy"
                   /\ c.mqtt_connection \in {"healthy", "degraded"}
                   /\ c.memory_usage \in {"healthy", "warning"}
                   /\ c.message_processing \in {"healthy", "warning"}
            /\ c.memory_usage = "unknown" => report.status = "unhealthy"
            /\ c.wasm_module = "unhealthy" => report.status = "unhealthy"

\* a report that is unhealthy only because the memory check is unknown
C28_Witness ==
    /\ report.status = "unhealthy"
    /\ report.checks = [wasm_module |-> "healthy",
                        mqtt_connection |-> "healthy",
                        memory_usage |-> "unknown",
                        message_processing |-> "healthy"]

\* C29: check_mqtt_connection gives healthy exactly when, in the metrics
\* read it took, connection_errors is 0 or messages_received is above 0,
\* and degraded otherwise; it gives no other status.
C29_ConnectivityFromOneRead ==
    healthPc = "memory" =>
        /\ checks.mqtt_connection \in {"healthy", "degraded"}
        /\ checks.mqtt_connection = "healthy" <=>
               \/ lastSnap.counts["connection_errors"] = 0
               \/ lastSnap.counts["messages_received"] > 0

\* degraded: errors and no message in the read
C29_Witness ==
    /\ healthPc = "memory"
    /\ checks.mqtt_connection = "degraded"
    /\ lastSnap.counts["connection_errors"] > 0
    /\ lastSnap.counts["messages_received"] = 0

\* C30: check_message_processing takes processing_errors and
\* messages_processed from one metrics read, computes the rate
\* errors * 100 / processed (0 when processed is 0) and gives healthy below
\* 1, warning from 1 to below 5, unhealthy from 5 on.
C30_ProcessingFromErrorRate ==
    healthPc = "verdict" =>
        LET e == lastSnap.counts["processing_errors"]
            p == lastSnap.counts["messages_processed"]
            s == checks.message_processing
        IN  /\ p = 0 => s = "healthy"
            /\ (p > 0 /\ e * 100 < p) => s = "healthy"
            /\ (p > 0 /\ e * 100 >= p /\ e * 100 < 5 * p) => s = "warning"
            /\ (p > 0 /\ e * 100 >= 5 * p) => s = "unhealthy"

\* a rate of exactly 1: one error in a hundred messages
C30_Witness ==
    /\ healthPc = "verdict"
    /\ lastSnap.counts["processing_errors"] = 1
    /\ lastSnap.counts["messages_processed"] = 100
    /\ checks.message_processing = "warning"


IngestBlocked == mqttPc = "send" /\ rxOpen /\ ~HasCapacity(queue)
\* processing_task waits in publish for room in the full request buffer
PublishBlocked == procPc = "publish" /\ ~HasRequestRoom(requests)

\* C31: with no shutdown and no reset, mqtt_task is never blocked in tx.send
\* on the full channel while processing_task is blocked in publish on the
\* full request buffer of the client, which only poll() drains.
C31_NeverBlockEachOther ==
    ~(IngestBlocked /\ PublishBlocked)


\* a subscribe request is in the buffer of the client, to be sent by a poll
SubscribePending == \E i \in DOMAIN requests : requests[i].kind = "subscribe"

\* C32: whenever mqtt_task is polling, also after a poll error and its
\* backoff, the subscription to the input topic holds or a subscribe request
\* is on its way to the broker.
C32_PollingIsSubscribed ==
    mqttPc = "poll" => subscribed \/ SubscribePending


\* C33 as claimed: with no reset, messages_processed plus the number of
\* items in the channel is at most messages_received, and no MetricsData
\* returned by get_metrics shows more processed than received messages.
C33_ProcessedAndQueuedWithinReceived ==
    /\ messages_processed + Len(queue) <= messages_received
    /\ lastSnap # NoSnap =>
           lastSnap.counts["messages_processed"]
               <= lastSnap.counts["messages_received"]

\* C33 as it holds: with no reset, messages_processed plus the number of
\* items in the channel is at most messages_received in every state; the
\* messages_processed of a returned MetricsData is at most the
\* messages_received counter at that time, but it can exceed the
\* messages_received of the same MetricsData, which was loaded earlier.
C33_LiveCountersWithinReceived ==
    /\ messages_processed + Len(queue) <= messages_received
    /\ lastSnap # NoSnap =>
           lastSnap.counts["messages_processed"] <= messages_received

\* get_metrics loaded messages_received before the first message came and
\* messages_processed after it was handled; the second message is queued
C33_Witness ==
    /\ lastSnap # NoSnap
    /\ lastSnap.counts["messages_received"] = 0
    /\ lastSnap.counts["messages_processed"] = 1
    /\ messages_processed = 1
    /\ Len(queue) = 1


\* the outcomes counted so far: alerts, publish errors, processing errors
OutcomesCounted == alerts_generated + publish_errors + processing_errors

\* C34: with no reset, an item raises at most one of alerts_generated,
\* publish_errors and processing_errors, by one, and before
\* messages_processed is raised for it: their sum is at most
\* messages_processed + 1, at most messages_processed while
\* processing_task is between two items, and a step that changes one of
\* the three raises it alone by one, for the item processing_task holds,
\* and takes the task to the latency call, from where nothing more is
\* counted for the item but messages_processed.
C34_OneOutcomePerItem ==
    /\ [](OutcomesCounted <= messages_processed + 1)
    /\ [](procPc \in {"recv", "done"} =>
              OutcomesCounted <= messages_processed)
    /\ [][ <<alerts_generated, publish_errors, processing_errors>>'
               # <<alerts_generated, publish_errors, processing_errors>> =>
             /\ procPc \in {"process", "publish", "count_alert"}
             /\ procPc' = "latency"
             /\ procItem' = procItem
             /\ OutcomesCounted' = OutcomesCounted + 1
             /\ messages_processed' = messages_processed
             /\ alerts_generated' >= alerts_generated
             /\ publish_errors' >= publish_errors
             /\ processing_errors' >= processing_errors ]_vars

\* the third item has counted a processing error and is not yet counted as
\* processed; the first two counted an alert and a publish error
C34_Witness ==
    /\ procPc = "latency"
    /\ messages_processed = 2
    /\ alerts_generated = 1
    /\ publish_errors = 1
    /\ processing_errors = 1


\* C35: with no reset, the filter_hit_rate of every MetricsData returned
\* while the pipeline runs is a percentage between 0 and 100, wherever
\* processing_task stands in its loop while get_metrics loads the counters.
C35_AlertRateIsPercentage ==
    lastSnap # NoSnap =>
        /\ lastSnap.filter_hit_rate.den > 0
        /\ 0 <= lastSnap.filter_hit_rate.num
        /\ lastSnap.filter_hit_rate.num <= 100 * lastSnap.filter_hit_rate.den


\* check_health has made its mqtt_connection check and not yet returned
MqttChecked == healthPc \in {"memory", "processing", "processing_read",
                             "verdict"}

====
